---- MODULE Spec2Model ----
(***************************************************************************)
(* A model of the tenant-scoped access and capacity logic of the          *)
(* shoptrack-admin panel: the entity services (customers, products,       *)
(* categories), the user and tenant services, and the row-level policies  *)
(* of the store they run against.                                         *)
(***************************************************************************)
EXTENDS Integers, Sequences, FiniteSets, TLC

(* ------------------------------ bounds -------------------------------- *)

\* Tenant identifiers are 1..NumTenants.
NumTenants == 2

\* User identifiers are 1..NumUsers.
NumUsers == 3

\* Browser sessions submitting a form at the same time.
NumSessions == 2

\* Profile fetches one AuthProvider awaits at the same time.
MaxFetches == 2

\* Rows ever inserted into customers, products and categories together.
MaxRows == 2

\* Largest limit / offset a listing is called with.
MaxPage == 1

(* ------------------------- program constants -------------------------- *)

\* SQL NULL / JavaScript null, and "no signed-in user".
NULL == 0

\* filters.limit || 10 in the range() call of every listing.
DefaultPageSize == 10

\* lte('stock_quantity', 10) of the low-stock filter.
LowStockThreshold == 10

\* tenant.max_users || 10 in createTenant, DEFAULT 10 of the column.
DefaultMaxUsers == 10

Roles == {"super_admin", "tenant_admin", "tenant_user"}

Statuses == {"active", "inactive", "suspended"}

Tenants == 1..NumTenants

Users == 1..NumUsers

RowIds == 1..MaxRows

\* Text values are tuples of characters; the empty tuple is a null column.
NoText == <<>>

Names == {<<"a">>, <<"A", "b">>}

Emails == {NoText, <<"b">>}

\* Search terms: none, a plain term, and one that closes the ilike
\* pattern and appends a disjunct of its own to the or() filter.
NoSearch == <<>>

InjectSearch == <<",", "*">>

Searches == {NoSearch, <<"b">>, InjectSearch}

StockValues == {0, 11}

\* The price of the products whose price is not looked at.
DefaultPrice == 10

\* Prices, costs and stock quantities of the products whose numbers are
\* looked at: a cost below, at and above a price; a stock below zero.
PriceValues == {5, 10}

CostValues == {0, 10, 12}

StockInputs == {-1, 0, 1}

\* The status values callers pass.
StatusInputs == {"active", "suspended"}

VARIABLES
    tenants,        \* table tenants: id -> row
    auth_users,     \* identities of the identity provider
    user_profiles,  \* table user_profiles: id -> row
    customers,      \* table customers: id -> row
    products,       \* table products: id -> row
    categories,     \* table categories: id -> row
    seq,            \* the SERIAL sequences of the three entity tables
    last,           \* the last service call: who, what, and its result
    pending,        \* the form submissions in flight, one per browser session
    auth,           \* the state of one browser's AuthProvider
    calls           \* the deleteCategory calls in flight, one per browser session

vars == <<tenants, auth_users, user_profiles, customers, products, categories, seq,
          last, pending, auth, calls>>

clientVars == <<pending, auth, calls>>

userVars == <<tenants, auth_users, user_profiles>>

entityVars == <<customers, products, categories, seq>>

(* ------------------------------ rows ---------------------------------- *)

NoTenantRow == [exists |-> FALSE, max_users |-> NULL]

NoProfile == [exists |-> FALSE, role |-> "tenant_user", tenant_id |-> NULL, status |-> "active"]

NoCustomer == [exists |-> FALSE, tenant_id |-> NULL, name |-> NoText, email |-> NoText]

NoProduct ==
    [exists |-> FALSE, tenant_id |-> NULL, name |-> NoText, price |-> NULL,
     cost |-> NULL, stock_quantity |-> NULL, category_id |-> NULL]

NoCategory == [exists |-> FALSE, tenant_id |-> NULL, name |-> NoText]

Min(a, b) == IF a < b THEN a ELSE b

RECURSIVE DescSeq(_)
\* order('created_at', { ascending: false }): ids are handed out in
\* creation order, so the newest row has the largest id.
DescSeq(S) ==
    IF S = {} THEN <<>>
    ELSE LET m == CHOOSE x \in S : \A y \in S : y <= x
         IN  <<m>> \o DescSeq(S \ {m})

\* limit() and range() as the listings call them: a falsy limit or offset
\* is not applied, and range() replaces the window limit() set.
Paginate(s, limit, offset) ==
    IF offset # 0
    THEN SubSeq(s, offset + 1,
                Min(Len(s), offset + (IF limit # 0 THEN limit ELSE DefaultPageSize)))
    ELSE IF limit # 0 THEN SubSeq(s, 1, Min(Len(s), limit))
    ELSE s

Lower(c) == IF c = "A" THEN "a" ELSE IF c = "B" THEN "b" ELSE c

LowerText(t) == [i \in 1..Len(t) |-> Lower(t[i])]

\* column ILIKE '%term%': a case-insensitive substring match, never true
\* of a null column.
Ilike(col, term) ==
    /\ col # NoText
    /\ \E i \in 1..Len(col) :
          /\ i + Len(term) - 1 <= Len(col)
          /\ SubSeq(LowerText(col), i, i + Len(term) - 1) = LowerText(term)

\* or(`c1.ilike.%s%,c2.ilike.%s%`) over the columns cols of a row; the
\* injected term adds a disjunct that every row satisfies.
OrIlike(cols, search) ==
    \/ search = InjectSearch
    \/ \E k \in 1..Len(cols) : Ilike(cols[k], search)

(* ------------------------- caller resolution -------------------------- *)

\* supabase.auth.getUser(): the signed-in identity, or null.
GetUser(caller) == IF caller \in auth_users THEN caller ELSE NULL

\* from('user_profiles').select('tenant_id').eq('id', user.id).single():
\* the caller's own row is visible to it; a missing row reads as null.
OwnTenant(caller) ==
    IF user_profiles[caller].exists THEN user_profiles[caller].tenant_id ELSE NULL

\* A preamble that forgets the tenant check.
PreconditionSessionOnly(caller) ==
    IF GetUser(caller) = NULL THEN "NotAuthenticated" ELSE "ok"

\* A preamble that never asks for the session.
PreconditionNoSessionCheck(caller) ==
    IF caller \notin Users \/ OwnTenant(caller) = NULL THEN "NoTenantAssigned"
    ELSE "ok"

\* The preamble of every entity operation.
Precondition(caller) ==
    IF GetUser(caller) = NULL THEN "NotAuthenticated"
    ELSE IF OwnTenant(caller) = NULL THEN "NoTenantAssigned"
    ELSE "ok"

\* A statement built without its tenant filter.
EqTenantDropped(row, t) == TRUE

\* .eq('tenant_id', userProfile.tenant_id)
EqTenant(row, t) == row.tenant_id = t

\* The four policies of customers: tenant_id IN (SELECT tenant_id FROM
\* user_profiles WHERE id = auth.uid()).
CustomersPolicy(caller, row) ==
    /\ user_profiles[caller].exists
    /\ user_profiles[caller].tenant_id # NULL
    /\ row.tenant_id = user_profiles[caller].tenant_id

Result(op, caller, target, err, data) ==
    [op |-> op, caller |-> caller,
     tenant |-> IF caller \in Users THEN OwnTenant(caller) ELSE NULL,
     target |-> target, err |-> err, data |-> data]

Fail(op, caller, target, err) == Result(op, caller, target, err, <<>>)


TotalCreated == seq.customers + seq.products + seq.categories

Bump(table) == [seq EXCEPT ![table] = @ + 1]

\* The rows of a listing, newest first, each with its id.
Listing(table, ids, limit, offset) ==
    LET page == Paginate(DescSeq(ids), limit, offset)
    IN  [k \in 1..Len(page) |-> [id |-> page[k], row |-> table[page[k]]]]

(* ----------------------------- customers ------------------------------ *)

CustomerMatches(caller, search) ==
    {i \in RowIds :
        /\ customers[i].exists
        /\ CustomersPolicy(caller, customers[i])
        /\ EqTenant(customers[i], OwnTenant(caller))
        /\ (search = NoSearch
            \/ OrIlike(<<customers[i].name, customers[i].email>>, search))}

GetAllCustomers(caller, search, limit, offset) ==
    /\ last' = IF Precondition(caller) # "ok"
               THEN Fail("getAllCustomers", caller, NULL, Precondition(caller))
               ELSE Result("getAllCustomers", caller, NULL, "none",
                           Listing(customers, CustomerMatches(caller, search), limit, offset))
    /\ UNCHANGED <<userVars, entityVars>>

\* The rows an .eq('id', id).eq('tenant_id', tenant) statement of the
\* caller addresses in customers.
CustomerTarget(caller, id) ==
    {i \in RowIds :
        /\ i = id
        /\ customers[i].exists
        /\ CustomersPolicy(caller, customers[i])
        /\ EqTenant(customers[i], OwnTenant(caller))}

GetCustomerById(caller, id) ==
    /\ last' = IF Precondition(caller) # "ok"
               THEN Fail("getCustomerById", caller, id, Precondition(caller))
               ELSE IF CustomerTarget(caller, id) = {}
               THEN Fail("getCustomerById", caller, id, "NotFound")
               ELSE Result("getCustomerById", caller, id, "none",
                           Listing(customers, CustomerTarget(caller, id), NULL, NULL))
    /\ UNCHANGED <<userVars, entityVars>>

\* customers.email is UNIQUE over the whole table.
EmailTaken(email, except) ==
    /\ email # NoText
    /\ \E j \in RowIds \ {except} : customers[j].exists /\ customers[j].email = email

\* A store whose customers have no policy on the rows written.
CustomerWriteErrorNoPolicy(caller, id, row) ==
    IF ~tenants[row.tenant_id].exists THEN "ForeignKeyViolation"
    ELSE IF EmailTaken(row.email, id) THEN "UniqueViolation"
    ELSE "none"

\* What the store answers to writing row as customer id for the caller.
CustomerWriteError(caller, id, row) ==
    IF ~CustomersPolicy(caller, row) THEN "PolicyViolation"
    ELSE IF ~tenants[row.tenant_id].exists THEN "ForeignKeyViolation"
    ELSE IF EmailTaken(row.email, id) THEN "UniqueViolation"
    ELSE "none"

CreateCustomer(caller, name, email) ==
    LET id  == seq.customers + 1
        row == [exists |-> TRUE, tenant_id |-> OwnTenant(caller),
                name |-> name, email |-> email]
    IN  IF Precondition(caller) # "ok"
        THEN /\ last' = Fail("createCustomer", caller, NULL, Precondition(caller))
             /\ UNCHANGED <<userVars, entityVars>>
        ELSE IF CustomerWriteError(caller, id, row) # "none"
        THEN /\ last' = Fail("createCustomer", caller, NULL, CustomerWriteError(caller, id, row))
             /\ UNCHANGED <<userVars, entityVars>>
        ELSE /\ TotalCreated < MaxRows
             /\ customers' = [customers EXCEPT ![id] = row]
             /\ seq' = Bump("customers")
             /\ last' = Result("createCustomer", caller, id, "none", <<[id |-> id, row |-> row]>>)
             /\ UNCHANGED <<userVars, products, categories>>

\* An updates object: the column it carries (has) and its value.
CustomerUpdates ==
    {u \in [has : SUBSET {"name", "email", "tenant_id"},
            name : Names, email : Emails, tenant_id : Tenants] :
        /\ Cardinality(u.has) = 1
        /\ ("name" \notin u.has => u.name = <<"a">>)
        /\ ("email" \notin u.has => u.email = NoText)
        /\ ("tenant_id" \notin u.has => u.tenant_id = 1)}

ApplyCustomerUpdates(row, u) ==
    [row EXCEPT !.name = IF "name" \in u.has THEN u.name ELSE @,
                !.email = IF "email" \in u.has THEN u.email ELSE @,
                !.tenant_id = IF "tenant_id" \in u.has THEN u.tenant_id ELSE @]

UpdateCustomer(caller, id, updates) ==
    LET row == ApplyCustomerUpdates(customers[id], updates)
    IN  IF Precondition(caller) # "ok"
        THEN /\ last' = Fail("updateCustomer", caller, id, Precondition(caller))
             /\ UNCHANGED <<userVars, entityVars>>
        ELSE IF CustomerTarget(caller, id) = {}
        THEN /\ last' = Fail("updateCustomer", caller, id, "NotFound")
             /\ UNCHANGED <<userVars, entityVars>>
        ELSE IF CustomerWriteError(caller, id, row) # "none"
        THEN /\ last' = Fail("updateCustomer", caller, id, CustomerWriteError(caller, id, row))
             /\ UNCHANGED <<userVars, entityVars>>
        ELSE /\ customers' = [customers EXCEPT ![id] = row]
             /\ last' = Result("updateCustomer", caller, id, "none", <<[id |-> id, row |-> row]>>)
             /\ UNCHANGED <<userVars, products, categories, seq>>

DeleteCustomer(caller, id) ==
    IF Precondition(caller) # "ok"
    THEN /\ last' = Fail("deleteCustomer", caller, id, Precondition(caller))
         /\ UNCHANGED <<userVars, entityVars>>
    ELSE /\ customers' = [i \in RowIds |->
                            IF i \in CustomerTarget(caller, id) THEN NoCustomer
                            ELSE customers[i]]
         /\ last' = Result("deleteCustomer", caller, id, "none", <<>>)
         /\ UNCHANGED <<userVars, products, categories, seq>>


(* ----------------------------- categories ----------------------------- *)

CategoryMatches(caller, search) ==
    {i \in RowIds :
        /\ categories[i].exists
        /\ EqTenant(categories[i], OwnTenant(caller))
        /\ (search = NoSearch \/ OrIlike(<<categories[i].name>>, search))}

GetAllCategories(caller, search, limit, offset) ==
    /\ last' = IF Precondition(caller) # "ok"
               THEN Fail("getAllCategories", caller, NULL, Precondition(caller))
               ELSE Result("getAllCategories", caller, NULL, "none",
                           Listing(categories, CategoryMatches(caller, search), limit, offset))
    /\ UNCHANGED <<userVars, entityVars>>

CategoryTarget(caller, id) ==
    {i \in RowIds :
        /\ i = id
        /\ categories[i].exists
        /\ EqTenant(categories[i], OwnTenant(caller))}

GetCategoryById(caller, id) ==
    /\ last' = IF Precondition(caller) # "ok"
               THEN Fail("getCategoryById", caller, id, Precondition(caller))
               ELSE IF CategoryTarget(caller, id) = {}
               THEN Fail("getCategoryById", caller, id, "NotFound")
               ELSE Result("getCategoryById", caller, id, "none",
                           Listing(categories, CategoryTarget(caller, id), NULL, NULL))
    /\ UNCHANGED <<userVars, entityVars>>

\* categories.name is declared UNIQUE.
CategoryNameTaken(name, except) ==
    \E j \in RowIds \ {except} : categories[j].exists /\ categories[j].name = name

CategoryWriteError(id, row) ==
    IF ~tenants[row.tenant_id].exists THEN "ForeignKeyViolation"
    ELSE IF CategoryNameTaken(row.name, id) THEN "UniqueViolation"
    ELSE "none"

\* A create that stamps the first tenant whoever calls.
CreateCategoryUnstamped(caller, name) ==
    LET id  == seq.categories + 1
        row == [exists |-> TRUE, tenant_id |-> 1, name |-> name]
    IN  IF Precondition(caller) # "ok"
        THEN /\ last' = Fail("createCategory", caller, NULL, Precondition(caller))
             /\ UNCHANGED <<userVars, entityVars>>
        ELSE IF CategoryWriteError(id, row) # "none"
        THEN /\ last' = Fail("createCategory", caller, NULL, CategoryWriteError(id, row))
             /\ UNCHANGED <<userVars, entityVars>>
        ELSE /\ TotalCreated < MaxRows
             /\ categories' = [categories EXCEPT ![id] = row]
             /\ seq' = Bump("categories")
             /\ last' = Result("createCategory", caller, id, "none", <<[id |-> id, row |-> row]>>)
             /\ UNCHANGED <<userVars, customers, products>>

CreateCategory(caller, name) ==
    LET id  == seq.categories + 1
        row == [exists |-> TRUE, tenant_id |-> OwnTenant(caller), name |-> name]
    IN  IF Precondition(caller) # "ok"
        THEN /\ last' = Fail("createCategory", caller, NULL, Precondition(caller))
             /\ UNCHANGED <<userVars, entityVars>>
        ELSE IF CategoryWriteError(id, row) # "none"
        THEN /\ last' = Fail("createCategory", caller, NULL, CategoryWriteError(id, row))
             /\ UNCHANGED <<userVars, entityVars>>
        ELSE /\ TotalCreated < MaxRows
             /\ categories' = [categories EXCEPT ![id] = row]
             /\ seq' = Bump("categories")
             /\ last' = Result("createCategory", caller, id, "none", <<[id |-> id, row |-> row]>>)
             /\ UNCHANGED <<userVars, customers, products>>

CategoryUpdates ==
    {u \in [has : SUBSET {"name", "tenant_id"}, name : Names, tenant_id : Tenants] :
        /\ Cardinality(u.has) = 1
        /\ ("name" \notin u.has => u.name = <<"a">>)
        /\ ("tenant_id" \notin u.has => u.tenant_id = 1)}

ApplyCategoryUpdates(row, u) ==
    [row EXCEPT !.name = IF "name" \in u.has THEN u.name ELSE @,
                !.tenant_id = IF "tenant_id" \in u.has THEN u.tenant_id ELSE @]

UpdateCategory(caller, id, updates) ==
    LET row == ApplyCategoryUpdates(categories[id], updates)
    IN  IF Precondition(caller) # "ok"
        THEN /\ last' = Fail("updateCategory", caller, id, Precondition(caller))
             /\ UNCHANGED <<userVars, entityVars>>
        ELSE IF CategoryTarget(caller, id) = {}
        THEN /\ last' = Fail("updateCategory", caller, id, "NotFound")
             /\ UNCHANGED <<userVars, entityVars>>
        ELSE IF CategoryWriteError(id, row) # "none"
        THEN /\ last' = Fail("updateCategory", caller, id, CategoryWriteError(id, row))
             /\ UNCHANGED <<userVars, entityVars>>
        ELSE /\ categories' = [categories EXCEPT ![id] = row]
             /\ last' = Result("updateCategory", caller, id, "none", <<[id |-> id, row |-> row]>>)
             /\ UNCHANGED <<userVars, customers, products, seq>>

\* select('*', { count: 'exact', head: true }).eq('category_id', id)
\*   .eq('tenant_id', tenant)
ProductCount(id, t) ==
    Cardinality({p \in RowIds :
        products[p].exists /\ products[p].category_id = id /\ EqTenant(products[p], t)})

\* A store that lets a referenced category go.
CategoryReferencedNever(id) == FALSE

\* products.category_id REFERENCES categories(id), with no ON DELETE action.
CategoryReferenced(id) ==
    \E p \in RowIds : products[p].exists /\ products[p].category_id = id

DeleteCategory(caller, id) ==
    IF Precondition(caller) # "ok"
    THEN /\ last' = Fail("deleteCategory", caller, id, Precondition(caller))
         /\ UNCHANGED <<userVars, entityVars>>
    ELSE IF ProductCount(id, OwnTenant(caller)) > 0
    THEN /\ last' = Result("deleteCategory", caller, id, "CategoryNotEmpty",
                           <<ProductCount(id, OwnTenant(caller))>>)
         /\ UNCHANGED <<userVars, entityVars>>
    ELSE IF CategoryTarget(caller, id) # {} /\ CategoryReferenced(id)
    THEN /\ last' = Fail("deleteCategory", caller, id, "ForeignKeyViolation")
         /\ UNCHANGED <<userVars, entityVars>>
    ELSE /\ categories' = [i \in RowIds |->
                             IF i \in CategoryTarget(caller, id) THEN NoCategory
                             ELSE categories[i]]
         /\ last' = Result("deleteCategory", caller, id, "none", <<>>)
         /\ UNCHANGED <<userVars, customers, products, seq>>

(* --------------- deleteCategory, statement by statement --------------- *)

\* What the count query answers: a count, or an error and a null count.
CountOutcomes == {"counted", "failed"}

\* const { count: productCount } = await ...select('*', { count: 'exact',
\* head: true }): the error of the answer is not read.
ReadProductCount(id, t, outcome) ==
    IF outcome = "counted" THEN <<ProductCount(id, t)>> ELSE <<>>

\* if (productCount && productCount > 0): null and 0 both pass.
CountBlocks(count) == count # <<>> /\ count[1] > 0

\* deleteCategory up to its guard: the preamble, the count query and the
\* test of productCount.  The call ends here with an error or goes on to
\* its DELETE, which is a statement of its own.
DeleteCategoryCount(p, caller, id, outcome) ==
    /\ calls[p].pc # "delete"
    /\ LET t     == OwnTenant(caller)
           count == ReadProductCount(id, t, outcome)
           call  == [pc |-> "done", caller |-> caller, tenant |-> t, id |-> id,
                     count |-> count, error |-> "none"]
       IN  IF Precondition(caller) # "ok"
           THEN /\ last' = Fail("deleteCategory", caller, id, Precondition(caller))
                /\ calls' = [calls EXCEPT ![p] =
                               [call EXCEPT !.count = <<>>, !.error = Precondition(caller)]]
           ELSE IF CountBlocks(count)
           THEN /\ last' = Result("deleteCategory", caller, id, "CategoryNotEmpty", count)
                /\ calls' = [calls EXCEPT ![p] = [call EXCEPT !.error = "CategoryNotEmpty"]]
           ELSE /\ last' = last
                /\ calls' = [calls EXCEPT ![p] = [call EXCEPT !.pc = "delete"]]
    /\ UNCHANGED <<userVars, entityVars, pending, auth>>

\* The DELETE of deleteCategory: .delete().eq('id', id).eq('tenant_id',
\* userProfile.tenant_id), with the tenant read in the preamble.
DeleteCategoryDelete(p) ==
    /\ calls[p].pc = "delete"
    /\ LET c      == calls[p]
           target == {i \in RowIds : /\ i = c.id
                                     /\ categories[i].exists
                                     /\ EqTenant(categories[i], c.tenant)}
       IN  IF target # {} /\ CategoryReferenced(c.id)
           THEN /\ last' = Fail("deleteCategory", c.caller, c.id, "ForeignKeyViolation")
                /\ calls' = [calls EXCEPT ![p] =
                               [c EXCEPT !.pc = "done", !.error = "ForeignKeyViolation"]]
                /\ UNCHANGED categories
           ELSE /\ categories' = [i \in RowIds |->
                                    IF i \in target THEN NoCategory ELSE categories[i]]
                /\ last' = Result("deleteCategory", c.caller, c.id, "none", <<>>)
                /\ calls' = [calls EXCEPT ![p] = [c EXCEPT !.pc = "done"]]
    /\ UNCHANGED <<userVars, customers, products, seq, pending, auth>>

(* ------------------------------ products ------------------------------ *)

\* category:categories(id, name, description): the row category_id points
\* at, embedded in the product; null when there is none.
EmbeddedCategory(row) ==
    IF row.category_id # NULL /\ categories[row.category_id].exists
    THEN [id |-> row.category_id, name |-> categories[row.category_id].name]
    ELSE [id |-> NULL, name |-> NoText]

ProductListing(ids, limit, offset) ==
    LET page == Paginate(DescSeq(ids), limit, offset)
    IN  [k \in 1..Len(page) |->
            [id |-> page[k], row |-> products[page[k]],
             category |-> EmbeddedCategory(products[page[k]])]]

ProductMatches(caller, search, category_id, low_stock) ==
    {i \in RowIds :
        /\ products[i].exists
        /\ EqTenant(products[i], OwnTenant(caller))
        /\ (search = NoSearch \/ OrIlike(<<products[i].name>>, search))
        /\ (category_id = NULL \/ products[i].category_id = category_id)
        /\ (~low_stock \/ products[i].stock_quantity <= LowStockThreshold)}

GetAllProducts(caller, search, category_id, low_stock, limit, offset) ==
    /\ last' = IF Precondition(caller) # "ok"
               THEN Fail("getAllProducts", caller, NULL, Precondition(caller))
               ELSE Result("getAllProducts", caller, NULL, "none",
                           ProductListing(ProductMatches(caller, search, category_id, low_stock),
                                          limit, offset))
    /\ UNCHANGED <<userVars, entityVars>>

ProductTarget(caller, id) ==
    {i \in RowIds :
        /\ i = id
        /\ products[i].exists
        /\ EqTenant(products[i], OwnTenant(caller))}

GetProductById(caller, id) ==
    /\ last' = IF Precondition(caller) # "ok"
               THEN Fail("getProductById", caller, id, Precondition(caller))
               ELSE IF ProductTarget(caller, id) = {}
               THEN Fail("getProductById", caller, id, "NotFound")
               ELSE Result("getProductById", caller, id, "none",
                           ProductListing(ProductTarget(caller, id), NULL, NULL))
    /\ UNCHANGED <<userVars, entityVars>>

\* A store without the constraint check_cost_less_than_price.
ProductWriteErrorNoCheck(row) ==
    IF ~tenants[row.tenant_id].exists THEN "ForeignKeyViolation"
    ELSE IF row.category_id # NULL /\ ~categories[row.category_id].exists
    THEN "ForeignKeyViolation"
    ELSE "none"

\* The constraints of products: the foreign keys, and
\* check_cost_less_than_price CHECK (cost IS NULL OR cost <= price), cost
\* being NOT NULL.  No constraint reads stock_quantity.
ProductWriteError(row) ==
    IF ~tenants[row.tenant_id].exists THEN "ForeignKeyViolation"
    ELSE IF row.category_id # NULL /\ ~categories[row.category_id].exists
    THEN "ForeignKeyViolation"
    ELSE IF row.cost > row.price THEN "CheckViolation"
    ELSE "none"

\* createProduct: cost is passed as given, and a cost left out is stored
\* as the column's DEFAULT 0, which is what NULL stands for here.
CreateProduct(caller, name, price, cost, stock_quantity, category_id) ==
    LET id  == seq.products + 1
        row == [exists |-> TRUE, tenant_id |-> OwnTenant(caller), name |-> name,
                price |-> price, cost |-> cost,
                stock_quantity |-> stock_quantity, category_id |-> category_id]
    IN  IF Precondition(caller) # "ok"
        THEN /\ last' = Fail("createProduct", caller, NULL, Precondition(caller))
             /\ UNCHANGED <<userVars, entityVars>>
        ELSE IF ProductWriteError(row) # "none"
        THEN /\ last' = Fail("createProduct", caller, NULL, ProductWriteError(row))
             /\ UNCHANGED <<userVars, entityVars>>
        ELSE /\ TotalCreated < MaxRows
             /\ products' = [products EXCEPT ![id] = row]
             /\ seq' = Bump("products")
             /\ last' = Result("createProduct", caller, id, "none", <<[id |-> id, row |-> row]>>)
             /\ UNCHANGED <<userVars, customers, categories>>

ProductUpdates ==
    {u \in [has : SUBSET {"name", "stock_quantity", "category_id", "tenant_id"},
            name : Names, price : {DefaultPrice}, cost : {NULL},
            stock_quantity : StockValues,
            category_id : {NULL} \cup RowIds, tenant_id : Tenants] :
        /\ Cardinality(u.has) = 1
        /\ ("name" \notin u.has => u.name = <<"a">>)
        /\ ("stock_quantity" \notin u.has => u.stock_quantity = 0)
        /\ ("category_id" \notin u.has => u.category_id = NULL)
        /\ ("tenant_id" \notin u.has => u.tenant_id = 1)}

ApplyProductUpdates(row, u) ==
    [row EXCEPT !.name = IF "name" \in u.has THEN u.name ELSE @,
                !.price = IF "price" \in u.has THEN u.price ELSE @,
                !.cost = IF "cost" \in u.has THEN u.cost ELSE @,
                !.stock_quantity = IF "stock_quantity" \in u.has THEN u.stock_quantity ELSE @,
                !.category_id = IF "category_id" \in u.has THEN u.category_id ELSE @,
                !.tenant_id = IF "tenant_id" \in u.has THEN u.tenant_id ELSE @]

UpdateProduct(caller, id, updates) ==
    LET row == ApplyProductUpdates(products[id], updates)
    IN  IF Precondition(caller) # "ok"
        THEN /\ last' = Fail("updateProduct", caller, id, Precondition(caller))
             /\ UNCHANGED <<userVars, entityVars>>
        ELSE IF ProductTarget(caller, id) = {}
        THEN /\ last' = Fail("updateProduct", caller, id, "NotFound")
             /\ UNCHANGED <<userVars, entityVars>>
        ELSE IF ProductWriteError(row) # "none"
        THEN /\ last' = Fail("updateProduct", caller, id, ProductWriteError(row))
             /\ UNCHANGED <<userVars, entityVars>>
        ELSE /\ products' = [products EXCEPT ![id] = row]
             /\ last' = Result("updateProduct", caller, id, "none", <<[id |-> id, row |-> row]>>)
             /\ UNCHANGED <<userVars, customers, categories, seq>>

DeleteProduct(caller, id) ==
    IF Precondition(caller) # "ok"
    THEN /\ last' = Fail("deleteProduct", caller, id, Precondition(caller))
         /\ UNCHANGED <<userVars, entityVars>>
    ELSE /\ products' = [i \in RowIds |->
                           IF i \in ProductTarget(caller, id) THEN NoProduct
                           ELSE products[i]]
         /\ last' = Result("deleteProduct", caller, id, "none", <<>>)
         /\ UNCHANGED <<userVars, customers, categories, seq>>

\* updateStock(id, newQuantity): updateProduct(id, { stock_quantity }).
UpdateStock(caller, id, newQuantity) ==
    UpdateProduct(caller, id,
        [has |-> {"stock_quantity"}, name |-> <<"a">>, price |-> DefaultPrice,
         cost |-> NULL, stock_quantity |-> newQuantity, category_id |-> NULL,
         tenant_id |-> 1])

\* The updates objects that carry a price, a cost or both.
PriceUpdates ==
    {u \in [has : SUBSET {"price", "cost"}, name : {<<"a">>}, price : PriceValues,
            cost : CostValues, stock_quantity : {0}, category_id : {NULL},
            tenant_id : {1}] :
        /\ u.has # {}
        /\ ("price" \notin u.has => u.price = DefaultPrice)
        /\ ("cost" \notin u.has => u.cost = 0)}

(* -------------------- the entity services, as a system ---------------- *)

(* --------------------- policies of user_profiles ---------------------- *)

\* The policies read user_profiles themselves: their inner SELECT sees the
\* table as it stands before the statement, whole.

\* EXISTS (SELECT 1 FROM user_profiles up
\*         WHERE up.id = auth.uid() AND up.role = 'super_admin')
IsSuperAdmin(caller) ==
    /\ GetUser(caller) # NULL
    /\ user_profiles[caller].exists
    /\ user_profiles[caller].role = "super_admin"

\* EXISTS (SELECT 1 FROM user_profiles up WHERE up.id = auth.uid()
\*         AND up.role = 'tenant_admin' AND up.tenant_id = <tenant_id>);
\* a null tenant_id equals nothing.
IsTenantAdminOf(caller, tenant_id) ==
    /\ GetUser(caller) # NULL
    /\ user_profiles[caller].exists
    /\ user_profiles[caller].role = "tenant_admin"
    /\ tenant_id # NULL
    /\ user_profiles[caller].tenant_id = tenant_id

\* "Super admins can manage all user profiles", FOR ALL.
SuperAdminsManage(caller, row) == IsSuperAdmin(caller)

\* "Tenant admins can manage their tenant users", FOR ALL.
TenantAdminsManage(caller, row) ==
    /\ IsTenantAdminOf(caller, row.tenant_id)
    /\ row.role = "tenant_user"

\* "Users can update their own profile", FOR UPDATE: USING.
OwnProfileUsing(caller, id) == GetUser(caller) # NULL /\ caller = id

\* "Users can update their own profile": WITH CHECK.
OwnProfileCheck(caller, id, row) ==
    /\ GetUser(caller) # NULL
    /\ caller = id
    /\ user_profiles[caller].exists
    /\ row.role = user_profiles[caller].role
    /\ row.tenant_id # NULL
    /\ row.tenant_id = user_profiles[caller].tenant_id

\* The three SELECT policies, OR-ed.
ProfileVisible(caller, id, row) ==
    \/ IsSuperAdmin(caller)
    \/ IsTenantAdminOf(caller, row.tenant_id)
    \/ (GetUser(caller) # NULL /\ caller = id)

\* The rows an UPDATE may touch: the USING clauses of the policies that
\* apply to UPDATE, OR-ed.
UpdateUsing(caller, id, row) ==
    \/ SuperAdminsManage(caller, row)
    \/ TenantAdminsManage(caller, row)
    \/ OwnProfileUsing(caller, id)

\* The rows an UPDATE may leave behind: the WITH CHECK clauses, OR-ed; a
\* FOR ALL policy without WITH CHECK checks its USING clause.
UpdateCheck(caller, id, row) ==
    \/ SuperAdminsManage(caller, row)
    \/ TenantAdminsManage(caller, row)
    \/ OwnProfileCheck(caller, id, row)

\* The rows an INSERT may add: only the FOR ALL policies apply.
InsertCheck(caller, row) ==
    \/ SuperAdminsManage(caller, row)
    \/ TenantAdminsManage(caller, row)

(* ---------------------------- user service ---------------------------- *)

\* An updates object of updateUser: the column it carries and its value.
\* full_name is carried but not kept in the model's rows.
UserUpdates ==
    {u \in [has : SUBSET {"full_name", "role", "tenant_id", "status"},
            role : Roles, tenant_id : {NULL} \cup Tenants, status : StatusInputs] :
        /\ Cardinality(u.has) = 1
        /\ ("role" \notin u.has => u.role = "tenant_user")
        /\ ("tenant_id" \notin u.has => u.tenant_id = NULL)
        /\ ("status" \notin u.has => u.status = "active")}

ApplyUserUpdates(row, u) ==
    [row EXCEPT !.role = IF "role" \in u.has THEN u.role ELSE @,
                !.tenant_id = IF "tenant_id" \in u.has THEN u.tenant_id ELSE @,
                !.status = IF "status" \in u.has THEN u.status ELSE @]

\* tenant_id UUID REFERENCES tenants(id)
ProfileForeignKeyError(row) ==
    IF row.tenant_id # NULL /\ ~tenants[row.tenant_id].exists
    THEN "ForeignKeyViolation" ELSE "none"

\* updateUser and its wrappers updateUserStatus, updateUserRole and
\* assignUserToTenant: one UPDATE ... WHERE id = $1, then single().
UpdateUser(caller, id, updates) ==
    LET old == user_profiles[id]
        row == ApplyUserUpdates(old, updates)
    IN  IF ~old.exists \/ ~UpdateUsing(caller, id, old)
        THEN /\ last' = Fail("updateUser", caller, NULL, "NotFound")
             /\ UNCHANGED <<userVars, entityVars>>
        ELSE IF ~UpdateCheck(caller, id, row)
        THEN /\ last' = Fail("updateUser", caller, NULL, "PolicyViolation")
             /\ UNCHANGED <<userVars, entityVars>>
        ELSE IF ProfileForeignKeyError(row) # "none"
        THEN /\ last' = Fail("updateUser", caller, NULL, ProfileForeignKeyError(row))
             /\ UNCHANGED <<userVars, entityVars>>
        ELSE /\ user_profiles' = [user_profiles EXCEPT ![id] = row]
             /\ last' = Result("updateUser", caller, NULL, "none", <<>>)
             /\ UNCHANGED <<tenants, auth_users, entityVars>>

\* handle_new_user(): the row the trigger adds for a new identity.
TriggerProfile ==
    [exists |-> TRUE, role |-> "tenant_user", tenant_id |-> NULL, status |-> "active"]

\* What the store answers to upsert([profileData]) for identity id, whose
\* trigger row is there already: the INSERT check on the proposed row,
\* then USING on the row in conflict and WITH CHECK on the row replacing it.
UpsertError(caller, id, row) ==
    IF ~InsertCheck(caller, row) THEN "PolicyViolation"
    ELSE IF ~UpdateUsing(caller, id, TriggerProfile) THEN "PolicyViolation"
    ELSE IF ~UpdateCheck(caller, id, row) THEN "PolicyViolation"
    ELSE ProfileForeignKeyError(row)

\* createUser: auth.admin.createUser, which the identity provider accepts
\* or refuses, then the upsert of the profile (tenant_id || null,
\* status || 'active').
CreateUser(caller, role, tenant_id, status, accepted) ==
    /\ Users \ auth_users # {}
    /\ LET id  == CHOOSE u \in Users \ auth_users : \A v \in Users \ auth_users : u <= v
           row == [exists |-> TRUE, role |-> role, tenant_id |-> tenant_id,
                   status |-> IF status # "" THEN status ELSE "active"]
       IN  IF ~accepted
           THEN /\ last' = Fail("createUser", caller, NULL, "AuthAdminError")
                /\ UNCHANGED <<userVars, entityVars>>
           ELSE /\ auth_users' = auth_users \cup {id}
                /\ user_profiles' =
                      [user_profiles EXCEPT ![id] =
                          IF UpsertError(caller, id, row) = "none" THEN row
                          ELSE TriggerProfile]
                /\ last' = Result("createUser", caller, NULL, UpsertError(caller, id, row), <<>>)
                /\ UNCHANGED <<tenants, entityVars>>

\* deleteUser: auth.admin.deleteUser only, which the identity provider
\* accepts or refuses; the profile goes with the identity (ON DELETE
\* CASCADE).  The created_by columns are not kept: a deletion they would
\* block is one of the refusals.
DeleteUser(caller, id, accepted) ==
    IF ~accepted \/ id \notin auth_users
    THEN /\ last' = Fail("deleteUser", caller, NULL, "AuthAdminError")
         /\ UNCHANGED <<userVars, entityVars>>
    ELSE /\ auth_users' = auth_users \ {id}
         /\ user_profiles' = [user_profiles EXCEPT ![id] = NoProfile]
         /\ last' = Result("deleteUser", caller, NULL, "none", <<>>)
         /\ UNCHANGED <<tenants, entityVars>>

(* --------------------------- tenant service --------------------------- *)

\* The SELECT policies of tenants: "Super admins can view all tenants",
\* "Tenant admins can view their tenant".
TenantVisible(caller, id) ==
    \/ IsSuperAdmin(caller)
    \/ IsTenantAdminOf(caller, id)

\* "Super admins can manage all tenants", FOR ALL.
TenantsManage(caller) == IsSuperAdmin(caller)

\* The identifiers a caller can name: those of the table's rows and one
\* that is no row's.
TenantRefs == 1..(NumTenants + 1)

\* count: 'exact' over user_profiles with eq('tenant_id', id) and the
\* given statuses, as far as the caller sees the rows.
CountProfiles(caller, id, statuses) ==
    Cardinality({u \in Users :
        /\ user_profiles[u].exists
        /\ user_profiles[u].tenant_id = id
        /\ user_profiles[u].status \in statuses
        /\ ProfileVisible(caller, u, user_profiles[u])})

\* A lookup that reports a missing row as no row and no error.
GetTenantByIdLenient(caller, id) ==
    IF id \in Tenants /\ tenants[id].exists /\ TenantVisible(caller, id)
    THEN [error |-> "none", found |-> TRUE, max_users |-> tenants[id].max_users,
          user_count |-> CountProfiles(caller, id, Statuses),
          active_users |-> CountProfiles(caller, id, {"active"})]
    ELSE [error |-> "none", found |-> FALSE, max_users |-> NULL,
          user_count |-> 0, active_users |-> 0]

\* getTenantById: select('*').eq('id', id).single(), then the two counts.
GetTenantById(caller, id) ==
    IF id \in Tenants /\ tenants[id].exists /\ TenantVisible(caller, id)
    THEN [error |-> "none", found |-> TRUE, max_users |-> tenants[id].max_users,
          user_count |-> CountProfiles(caller, id, Statuses),
          active_users |-> CountProfiles(caller, id, {"active"})]
    ELSE [error |-> "NotFound", found |-> FALSE, max_users |-> NULL,
          user_count |-> 0, active_users |-> 0]

\* A count of the active members only.
GetTenantUsersCountActive(caller, tenantId) ==
    [data |-> CountProfiles(caller, tenantId, {"active"}), error |-> "none"]

\* getTenantUsersCount: { data: count || 0, error }
GetTenantUsersCount(caller, tenantId) ==
    [data |-> CountProfiles(caller, tenantId, Statuses), error |-> "none"]

\* The value canAddUser returns.
CanAddUserResult(caller, tenantId) ==
    LET tenant == GetTenantById(caller, tenantId)
        count  == GetTenantUsersCount(caller, tenantId)
    IN  IF tenant.error # "none" \/ ~tenant.found
        THEN [canAdd |-> FALSE, currentCount |-> 0, maxUsers |-> 0, error |-> tenant.error]
        ELSE IF count.error # "none"
        THEN [canAdd |-> FALSE, currentCount |-> 0, maxUsers |-> tenant.max_users,
              error |-> count.error]
        ELSE [canAdd |-> count.data < tenant.max_users, currentCount |-> count.data,
              maxUsers |-> tenant.max_users, error |-> "none"]

CanAddUser(caller, tenantId) ==
    /\ last' = Result("canAddUser", caller, tenantId,
                      CanAddUserResult(caller, tenantId).error,
                      <<CanAddUserResult(caller, tenantId)>>)
    /\ UNCHANGED <<userVars, entityVars>>

\* getUserById: select(*, tenant:tenants(...)).eq('id', id).single()
GetUserById(caller, id) ==
    IF user_profiles[id].exists /\ ProfileVisible(caller, id, user_profiles[id])
    THEN [error |-> "none", found |-> TRUE, tenant_id |-> user_profiles[id].tenant_id]
    ELSE [error |-> "NotFound", found |-> FALSE, tenant_id |-> NULL]

\* `Tenant is at capacity (${currentCount}/${maxUsers} users)`: a reason
\* is its text and the values put into it; no reason is the empty tuple.
AtCapacityReason(currentCount, maxUsers) ==
    <<"Tenant is at capacity", currentCount, maxUsers>>

\* A check that never asks for capacity.
CanAssignToTenantIgnoringCapacity(caller, userId, tenantId) ==
    LET user == GetUserById(caller, userId)
    IN  IF user.error # "none" \/ ~user.found
        THEN [canAssign |-> FALSE, reason |-> <<"User not found">>, error |-> user.error]
        ELSE [canAssign |-> TRUE, reason |-> <<>>, error |-> "none"]

\* A check that always asks for capacity.
CanAssignToTenantByCapacity(caller, userId, tenantId) ==
    LET user     == GetUserById(caller, userId)
        capacity == CanAddUserResult(caller, tenantId)
    IN  IF user.error # "none" \/ ~user.found
        THEN [canAssign |-> FALSE, reason |-> <<"User not found">>, error |-> user.error]
        ELSE IF capacity.error # "none"
        THEN [canAssign |-> FALSE, reason |-> <<"Error checking tenant capacity">>,
              error |-> capacity.error]
        ELSE IF ~capacity.canAdd
        THEN [canAssign |-> FALSE, reason |-> AtCapacityReason(capacity.currentCount, capacity.maxUsers),
              error |-> "none"]
        ELSE [canAssign |-> TRUE, reason |-> <<>>, error |-> "none"]

\* The value canAssignToTenant returns.
CanAssignToTenantResult(caller, userId, tenantId) ==
    LET user     == GetUserById(caller, userId)
        capacity == CanAddUserResult(caller, tenantId)
    IN  IF user.error # "none" \/ ~user.found
        THEN [canAssign |-> FALSE, reason |-> <<"User not found">>, error |-> user.error]
        ELSE IF user.tenant_id = tenantId
        THEN [canAssign |-> TRUE, reason |-> <<>>, error |-> "none"]
        ELSE IF capacity.error # "none"
        THEN [canAssign |-> FALSE, reason |-> <<"Error checking tenant capacity">>,
              error |-> capacity.error]
        ELSE IF ~capacity.canAdd
        THEN [canAssign |-> FALSE, reason |-> AtCapacityReason(capacity.currentCount, capacity.maxUsers),
              error |-> "none"]
        ELSE [canAssign |-> TRUE, reason |-> <<>>, error |-> "none"]

CanAssignToTenant(caller, userId, tenantId) ==
    /\ last' = Result("canAssignToTenant", caller, userId,
                      CanAssignToTenantResult(caller, userId, tenantId).error,
                      <<[tenantId |-> tenantId,
                         result |-> CanAssignToTenantResult(caller, userId, tenantId)]>>)
    /\ UNCHANGED <<userVars, entityVars>>

\* createTenant: max_users: tenant.max_users || 10, one INSERT.
CreateTenant(caller, max_users) ==
    /\ \E t \in Tenants : ~tenants[t].exists
    /\ LET id  == CHOOSE t \in Tenants : ~tenants[t].exists
                      /\ \A v \in Tenants : ~tenants[v].exists => t <= v
           row == [exists |-> TRUE,
                   max_users |-> IF max_users # 0 THEN max_users ELSE DefaultMaxUsers]
       IN  IF ~TenantsManage(caller)
           THEN /\ last' = Fail("createTenant", caller, NULL, "PolicyViolation")
                /\ UNCHANGED <<userVars, entityVars>>
           ELSE /\ tenants' = [tenants EXCEPT ![id] = row]
                /\ last' = Result("createTenant", caller, id, "none", <<>>)
                /\ UNCHANGED <<auth_users, user_profiles, entityVars>>

\* updateTenant: one UPDATE ... WHERE id = $1, then single().
UpdateTenant(caller, id, max_users) ==
    IF ~(id \in Tenants /\ tenants[id].exists /\ TenantsManage(caller))
    THEN /\ last' = Fail("updateTenant", caller, id, "NotFound")
         /\ UNCHANGED <<userVars, entityVars>>
    ELSE /\ tenants' = [tenants EXCEPT ![id].max_users = max_users]
         /\ last' = Result("updateTenant", caller, id, "none", <<>>)
         /\ UNCHANGED <<auth_users, user_profiles, entityVars>>

\* products.category_id REFERENCES categories(id), with no ON DELETE
\* action: a category of the tenant that a product of another tenant
\* points at cannot go.
TenantCascadeBlocked(id) ==
    \E p \in RowIds :
        /\ products[p].exists
        /\ products[p].tenant_id # id
        /\ products[p].category_id # NULL
        /\ categories[products[p].category_id].tenant_id = id

\* deleteTenant: one DELETE ... WHERE id = $1; the tenant's customers,
\* products and categories go with it (ON DELETE CASCADE), its users are
\* left without tenant (ON DELETE SET NULL).
DeleteTenant(caller, id) ==
    IF ~(id \in Tenants /\ tenants[id].exists /\ TenantsManage(caller))
    THEN /\ last' = Result("deleteTenant", caller, id, "none", <<>>)
         /\ UNCHANGED <<userVars, entityVars>>
    ELSE IF TenantCascadeBlocked(id)
    THEN /\ last' = Fail("deleteTenant", caller, id, "ForeignKeyViolation")
         /\ UNCHANGED <<userVars, entityVars>>
    ELSE /\ tenants' = [tenants EXCEPT ![id] = NoTenantRow]
         /\ user_profiles' = [u \in Users |->
                IF user_profiles[u].exists /\ user_profiles[u].tenant_id = id
                THEN [user_profiles[u] EXCEPT !.tenant_id = NULL]
                ELSE user_profiles[u]]
         /\ customers' = [i \in RowIds |->
                IF customers[i].tenant_id = id THEN NoCustomer ELSE customers[i]]
         /\ products' = [i \in RowIds |->
                IF products[i].tenant_id = id THEN NoProduct ELSE products[i]]
         /\ categories' = [i \in RowIds |->
                IF categories[i].tenant_id = id THEN NoCategory ELSE categories[i]]
         /\ last' = Result("deleteTenant", caller, id, "none", <<>>)
         /\ UNCHANGED <<auth_users, seq>>

(* ----------------------- the user edit pages -------------------------- *)

\* The status values both edit forms offer.
EditStatuses == {"active", "inactive"}

\* A write through an edit form: the field changed and its new value; the
\* other fields keep the values loaded into the form.
EditWrites ==
    {w \in [field : {"full_name", "role", "status"}, role : Roles, status : EditStatuses] :
        /\ (w.field # "role" => w.role = "tenant_user")
        /\ (w.field # "status" => w.status = "active")}

\* ProtectedRoute allowedRoles={...}: the children render for a signed-in
\* user whose profile has one of the roles.
RouteAllows(caller, allowedRoles) ==
    /\ GetUser(caller) # NULL
    /\ user_profiles[caller].exists
    /\ user_profiles[caller].role \in allowedRoles

\* EditUserPage.loadUser of the tenant admin: getUserById, shown only if
\* the row is of the tenant of the current user.
TenantEditLoads(caller, id) ==
    /\ RouteAllows(caller, {"tenant_admin"})
    /\ user_profiles[caller].tenant_id # NULL
    /\ GetUserById(caller, id).found
    /\ GetUserById(caller, id).tenant_id = user_profiles[caller].tenant_id

\* const canEditRole = user?.role !== 'super_admin' && user?.id !== currentUser?.id
CanEditRole(caller, id) ==
    user_profiles[id].role # "super_admin" /\ id # caller

\* The writes the tenant admin's form lets through: the role select is
\* disabled without canEditRole and offers tenant_user and tenant_admin,
\* the status select is disabled on the own row.
TenantEditPermits(caller, id, w) ==
    /\ TenantEditLoads(caller, id)
    /\ (w.field = "role" =>
            CanEditRole(caller, id) /\ w.role \in {"tenant_user", "tenant_admin"})
    /\ (w.field = "status" => id # caller)

\* UserEditPage of the super admin: getUserWithDetails, and no form at all
\* on the own row ("You cannot edit your own account from this page").
SuperEditPermits(caller, id, w) ==
    /\ RouteAllows(caller, {"super_admin"})
    /\ GetUserById(caller, id).found
    /\ id # caller

\* The updates object handleSubmit of the tenant admin's page sends:
\* full_name, role and status of the form.
TenantFormUpdates(id, w) ==
    [has |-> {"full_name", "role", "status"},
     role |-> IF w.field = "role" THEN w.role ELSE user_profiles[id].role,
     tenant_id |-> NULL,
     status |-> IF w.field = "status" THEN w.status ELSE user_profiles[id].status]

\* The updates object handleSubmit of the super admin's page sends: the
\* tenant_id of the form as well, here the one loaded.
SuperFormUpdates(id, w) ==
    [TenantFormUpdates(id, w) EXCEPT
        !.has = @ \cup {"tenant_id"}, !.tenant_id = user_profiles[id].tenant_id]

\* handleSubmit of the tenant admin's EditUserPage.
TenantEditSubmit(caller, id, w) ==
    /\ TenantEditPermits(caller, id, w)
    /\ UpdateUser(caller, id, TenantFormUpdates(id, w))
    /\ UNCHANGED clientVars

\* handleSubmit of the super admin's UserEditPage.
SuperEditSubmit(caller, id, w) ==
    /\ SuperEditPermits(caller, id, w)
    /\ UpdateUser(caller, id, SuperFormUpdates(id, w))
    /\ UNCHANGED clientVars

\* No session, or one of the users.
Callers == {NULL} \cup Users

Pages == 0..MaxPage

\* The browser sessions with a form open.
Sessions == 1..NumSessions

\* A session with no submission in flight.
NoSubmission ==
    [pc |-> "idle", caller |-> NULL, userId |-> NULL,
     formData |-> [role |-> "", tenant_id |-> NULL, status |-> ""],
     checked |-> FALSE, seen |-> <<>>, error |-> "none"]

\* A session with no deleteCategory call in flight.  count is the
\* productCount the call read, in a tuple; the empty tuple is a null count.
NoCall ==
    [pc |-> "idle", caller |-> NULL, tenant |-> NULL, id |-> NULL,
     count |-> <<>>, error |-> "none"]

\* userProfile = null in the AuthProvider.
NoAuthProfile == [id |-> NULL, role |-> "", tenant_id |-> NULL]

\* The AuthProvider as mounted: useState(null), useState(true), the effect
\* has subscribed and awaits getSession() (initial), no fetchUserProfile is
\* awaited.
NoAuth ==
    [initial |-> "awaited", user |-> NULL, userProfile |-> NoAuthProfile,
     loading |-> TRUE, fetches |-> {}]

\* A store in which every tenant exists and the users cover the roles:
\* user 1 is a super_admin without tenant, user 2 a tenant_admin, the
\* others tenant_users, spread over the tenants.
InitProfile(u) ==
    IF u = 1
    THEN [exists |-> TRUE, role |-> "super_admin", tenant_id |-> NULL, status |-> "active"]
    ELSE [exists |-> TRUE,
          role |-> IF u = 2 THEN "tenant_admin" ELSE "tenant_user",
          tenant_id |-> ((u - 2) % NumTenants) + 1,
          status |-> "active"]

InitEntities ==
    /\ tenants = [t \in Tenants |->
                    [exists |-> TRUE, max_users |-> DefaultMaxUsers]]
    /\ auth_users = Users
    /\ user_profiles = [u \in Users |-> InitProfile(u)]
    /\ customers = [i \in RowIds |-> NoCustomer]
    /\ products = [i \in RowIds |-> NoProduct]
    /\ categories = [i \in RowIds |-> NoCategory]
    /\ seq = [customers |-> 0, products |-> 0, categories |-> 0]
    /\ last = Fail("init", NULL, NULL, "none")
    /\ pending = [p \in Sessions |-> NoSubmission]
    /\ calls = [p \in Sessions |-> NoCall]
    /\ auth = NoAuth

NextEntities ==
    \E caller \in Callers :
        \/ \E s \in Searches, l \in Pages, o \in Pages : GetAllCustomers(caller, s, l, o) /\ UNCHANGED clientVars
        \/ \E id \in RowIds : GetCustomerById(caller, id) /\ UNCHANGED clientVars
        \/ \E n \in Names, e \in Emails : CreateCustomer(caller, n, e) /\ UNCHANGED clientVars
        \/ \E id \in RowIds, u \in CustomerUpdates : UpdateCustomer(caller, id, u) /\ UNCHANGED clientVars
        \/ \E id \in RowIds : DeleteCustomer(caller, id) /\ UNCHANGED clientVars
        \/ \E s \in Searches, l \in Pages, o \in Pages : GetAllCategories(caller, s, l, o) /\ UNCHANGED clientVars
        \/ \E id \in RowIds : GetCategoryById(caller, id) /\ UNCHANGED clientVars
        \/ \E n \in Names : CreateCategory(caller, n) /\ UNCHANGED clientVars
        \/ \E id \in RowIds, u \in CategoryUpdates : UpdateCategory(caller, id, u) /\ UNCHANGED clientVars
        \/ \E id \in RowIds : DeleteCategory(caller, id) /\ UNCHANGED clientVars
        \/ \E s \in Searches, c \in {NULL} \cup RowIds, low \in BOOLEAN,
              l \in Pages, o \in Pages : GetAllProducts(caller, s, c, low, l, o) /\ UNCHANGED clientVars
        \/ \E id \in RowIds : GetProductById(caller, id) /\ UNCHANGED clientVars
        \/ \E n \in Names, q \in StockValues, c \in {NULL} \cup RowIds :
              CreateProduct(caller, n, DefaultPrice, NULL, q, c) /\ UNCHANGED clientVars
        \/ \E id \in RowIds, u \in ProductUpdates : UpdateProduct(caller, id, u) /\ UNCHANGED clientVars
        \/ \E id \in RowIds : DeleteProduct(caller, id) /\ UNCHANGED clientVars

SpecEntities == InitEntities /\ [][NextEntities]_vars


\* The product service with prices, costs and stock quantities of every
\* sign and order.
NextProducts ==
    \E caller \in Callers :
        \/ \E price \in PriceValues, cost \in CostValues, q \in StockInputs :
              CreateProduct(caller, <<"a">>, price, cost, q, NULL) /\ UNCHANGED clientVars
        \/ \E id \in RowIds, u \in PriceUpdates :
              UpdateProduct(caller, id, u) /\ UNCHANGED clientVars
        \/ \E id \in RowIds, q \in StockInputs :
              UpdateStock(caller, id, q) /\ UNCHANGED clientVars
        \/ \E id \in RowIds : DeleteProduct(caller, id) /\ UNCHANGED clientVars

SpecProducts == InitEntities /\ [][NextProducts]_vars


\* The user service against the same store, tenants fixed.
InitPolicy == InitEntities

NextPolicy ==
    \E caller \in Callers :
        \/ \E id \in Users, u \in UserUpdates : UpdateUser(caller, id, u) /\ UNCHANGED clientVars
        \/ \E r \in Roles, t \in {NULL} \cup Tenants, s \in {"", "suspended"},
              accepted \in BOOLEAN :
              CreateUser(caller, r, t, s, accepted) /\ UNCHANGED clientVars
        \/ \E id \in Users, accepted \in BOOLEAN : DeleteUser(caller, id, accepted) /\ UNCHANGED clientVars

SpecPolicy == InitPolicy /\ [][NextPolicy]_vars


\* The capacity checks, with a tenant that is full and counts a suspended
\* member: tenant 1 holds users 2 and 3 of its 2, tenant 2 nobody of its 1.
InitCapacity ==
    /\ tenants = [t \in Tenants |->
                    [exists |-> TRUE, max_users |-> IF t = 1 THEN 2 ELSE 1]]
    /\ auth_users = Users
    /\ user_profiles = [u \in Users |->
          IF u = 1 THEN InitProfile(1)
          ELSE [InitProfile(u) EXCEPT !.tenant_id = 1,
                   !.status = IF u = 2 THEN "active" ELSE "suspended"]]
    /\ customers = [i \in RowIds |-> NoCustomer]
    /\ products = [i \in RowIds |-> NoProduct]
    /\ categories = [i \in RowIds |-> NoCategory]
    /\ seq = [customers |-> 0, products |-> 0, categories |-> 0]
    /\ last = Fail("init", NULL, NULL, "none")
    /\ pending = [p \in Sessions |-> NoSubmission]
    /\ calls = [p \in Sessions |-> NoCall]
    /\ auth = NoAuth

\* The max_users values callers pass; 0 is the empty form field.
MaxUsersInputs == {0, 1, 2}

\* assignUserToTenant(userId, tenantId)
AssignUpdates == {u \in UserUpdates : u.has = {"tenant_id"}}

NextCapacity ==
    \E caller \in Callers :
        \/ \E t \in TenantRefs : CanAddUser(caller, t) /\ UNCHANGED clientVars
        \/ \E u \in Users, t \in TenantRefs : CanAssignToTenant(caller, u, t) /\ UNCHANGED clientVars
        \/ \E id \in Users, u \in AssignUpdates : UpdateUser(caller, id, u) /\ UNCHANGED clientVars
        \/ \E m \in MaxUsersInputs : CreateTenant(caller, m) /\ UNCHANGED clientVars
        \/ \E t \in TenantRefs, m \in MaxUsersInputs \ {0} : UpdateTenant(caller, t, m) /\ UNCHANGED clientVars
        \/ \E t \in TenantRefs : DeleteTenant(caller, t) /\ UNCHANGED clientVars

SpecCapacity == InitCapacity /\ [][NextCapacity]_vars


\* The max_users values the tenant service is called with: below, at and
\* above zero.
MaxUsersValues == {-1, 0, 1}

\* The tenant service, called with any max_users.
NextTenants ==
    \E caller \in Callers :
        \/ \E m \in MaxUsersValues : CreateTenant(caller, m) /\ UNCHANGED clientVars
        \/ \E t \in TenantRefs, m \in MaxUsersValues :
              UpdateTenant(caller, t, m) /\ UNCHANGED clientVars
        \/ \E t \in TenantRefs : DeleteTenant(caller, t) /\ UNCHANGED clientVars

SpecTenants == InitCapacity /\ [][NextTenants]_vars

\* Tenants with rows in every table, and their deletion.
NextCascade ==
    \E caller \in Callers :
        \/ CreateCustomer(caller, <<"a">>, NoText) /\ UNCHANGED clientVars
        \/ CreateCategory(caller, <<"a">>) /\ UNCHANGED clientVars
        \/ \E c \in {NULL} \cup RowIds :
              CreateProduct(caller, <<"a">>, DefaultPrice, NULL, 0, c)
                 /\ UNCHANGED clientVars
        \/ \E t \in TenantRefs : DeleteTenant(caller, t) /\ UNCHANGED clientVars

SpecCascade == InitEntities /\ [][NextCascade]_vars

(* --------------- the user forms, one await at a time ------------------ *)

\* UserEditPage.handleSubmit up to its first await: the form holds the row
\* as loaded with the tenant the admin picked ('' is no tenant); when that
\* tenant is set and differs from the loaded one, canAssignToTenant is
\* awaited and a refusal ends the submission.  seen keeps what canAddUser
\* answered inside the check, which the page itself never learns.
HandleSubmitCheck(p, caller, userId, tenant_id) ==
    LET user     == user_profiles[userId]
        formData == [role |-> user.role, tenant_id |-> tenant_id, status |-> user.status]
        result   == CanAssignToTenantResult(caller, userId, tenant_id)
        capacity == CanAddUserResult(caller, tenant_id)
        started  == [pc |-> "write", caller |-> caller, userId |-> userId,
                     formData |-> formData, checked |-> FALSE, seen |-> <<>>,
                     error |-> "none"]
    IN  /\ pending[p].pc # "write"
        /\ user.exists /\ ProfileVisible(caller, userId, user)
        /\ IF tenant_id # NULL /\ tenant_id # user.tenant_id
           THEN /\ CanAssignToTenant(caller, userId, tenant_id)
                /\ pending' = [pending EXCEPT ![p] =
                      IF result.error # "none" \/ ~result.canAssign
                      THEN [started EXCEPT !.pc = "done", !.checked = TRUE,
                                           !.error = "CannotAssign"]
                      ELSE [started EXCEPT !.checked = TRUE,
                               !.seen = <<capacity.canAdd, capacity.currentCount,
                                          capacity.maxUsers>>]]
           ELSE /\ pending' = [pending EXCEPT ![p] = started]
                /\ UNCHANGED <<userVars, entityVars, last>>

\* A write that looks at the tenant's seats again, in the same statement.
HandleSubmitWriteLocked(p) ==
    LET sub == pending[p]
        t   == sub.formData.tenant_id
    IN  /\ sub.pc = "write"
        /\ IF /\ sub.checked
              /\ Cardinality({u \in Users : user_profiles[u].exists
                                 /\ user_profiles[u].tenant_id = t}) >= tenants[t].max_users
           THEN /\ pending' = [pending EXCEPT ![p] =
                                  [sub EXCEPT !.pc = "done", !.error = "CannotAssign"]]
                /\ UNCHANGED <<userVars, entityVars, last>>
           ELSE /\ UpdateUser(sub.caller, sub.userId,
                      [has |-> {"full_name", "role", "tenant_id", "status"},
                       role |-> sub.formData.role, tenant_id |-> t,
                       status |-> sub.formData.status])
                /\ pending' = [pending EXCEPT ![p] =
                                  [sub EXCEPT !.pc = "done", !.error = last'.err]]

\* UserEditPage.handleSubmit after the check: updateUser with the form's
\* full_name, role, tenant_id || null and status.
HandleSubmitWrite(p) ==
    LET sub == pending[p]
    IN  /\ sub.pc = "write"
        /\ UpdateUser(sub.caller, sub.userId,
              [has |-> {"full_name", "role", "tenant_id", "status"},
               role |-> sub.formData.role, tenant_id |-> sub.formData.tenant_id,
               status |-> sub.formData.status])
        /\ pending' = [pending EXCEPT ![p] = [sub EXCEPT !.pc = "done", !.error = last'.err]]

\* Two tenants of one seat each, the first taken by user 2 and the second
\* free; identity 3 is not created yet.
InitAdmission ==
    /\ tenants = [t \in Tenants |-> [exists |-> TRUE, max_users |-> 1]]
    /\ auth_users = {1, 2}
    /\ user_profiles = [u \in Users |->
          IF u = 1 THEN InitProfile(1)
          ELSE IF u = 2
               THEN [exists |-> TRUE, role |-> "tenant_user", tenant_id |-> 1,
                     status |-> "active"]
               ELSE NoProfile]
    /\ customers = [i \in RowIds |-> NoCustomer]
    /\ products = [i \in RowIds |-> NoProduct]
    /\ categories = [i \in RowIds |-> NoCategory]
    /\ seq = [customers |-> 0, products |-> 0, categories |-> 0]
    /\ last = Fail("init", NULL, NULL, "none")
    /\ pending = [p \in Sessions |-> NoSubmission]
    /\ calls = [p \in Sessions |-> NoCall]
    /\ auth = NoAuth

\* The super_admin user pages: create a user, edit a user.
NextAdmission ==
    \E caller \in Users :
        \/ \E t \in {NULL} \cup Tenants, accepted \in BOOLEAN :
              /\ CreateUser(caller, "tenant_user", t, "", accepted)
              /\ UNCHANGED clientVars
        \/ \E p \in Sessions, u \in Users, t \in {NULL} \cup Tenants :
              /\ IsSuperAdmin(caller)
              /\ HandleSubmitCheck(p, caller, u, t)
              /\ UNCHANGED <<auth, calls>>
        \/ \E p \in Sessions :
              pending[p].caller = caller /\ HandleSubmitWrite(p) /\ UNCHANGED <<auth, calls>>

SpecAdmission == InitAdmission /\ [][NextAdmission]_vars


(* -------------------------- the AuthProvider -------------------------- *)

\* How a fetchUserProfile can end: the store answers (with the row, or
\* with PGRST116 when there is none), the table is missing (42P01), the
\* store answers another error, or the call throws.
FetchOutcomes == {"answered", "42P01", "other", "thrown"}

\* The profile fetchUserProfile makes up: role tenant_user, no tenant.
DefaultProfile(userId) == [id |-> userId, role |-> "tenant_user", tenant_id |-> NULL]

\* A fallback that gives up: null instead of a made-up profile.
FetchUserProfileNoFallback(userId, outcome) ==
    IF outcome = "answered" /\ user_profiles[userId].exists
          /\ ProfileVisible(userId, userId, user_profiles[userId])
    THEN [id |-> userId, role |-> user_profiles[userId].role,
          tenant_id |-> user_profiles[userId].tenant_id]
    ELSE NoAuthProfile

\* fetchUserProfile(userId): select('*').eq('id', userId).single() as the
\* signed-in user; PGRST116 and 42P01 give the default profile, any other
\* error gives null, an exception gives the default profile.
FetchUserProfile(userId, outcome) ==
    IF outcome = "answered" /\ user_profiles[userId].exists
          /\ ProfileVisible(userId, userId, user_profiles[userId])
    THEN [id |-> userId, role |-> user_profiles[userId].role,
          tenant_id |-> user_profiles[userId].tenant_id]
    ELSE IF outcome \in {"answered", "42P01", "thrown"} THEN DefaultProfile(userId)
    ELSE NoAuthProfile

\* A callback that awaits fetchUserProfile for userId.
Fetch(cb, userId) == [cb |-> cb, userId |-> userId]

\* What setSession/setUser and the branch on session?.user leave, for the
\* callback cb: a fetch is awaited, or the profile is cleared (only the
\* listener clears it) and loading ends.
OnSession(cb, session) ==
    IF session # NULL
    THEN [auth EXCEPT !.user = session, !.fetches = @ \cup {Fetch(cb, session)}]
    ELSE [auth EXCEPT !.user = NULL, !.loading = FALSE,
                      !.userProfile = IF cb = "change" THEN NoAuthProfile ELSE @]

\* getInitialSession resumes after getSession().
GetInitialSession(session) ==
    /\ auth.initial = "awaited"
    /\ Cardinality(auth.fetches) < MaxFetches
    /\ auth' = [OnSession("initial", session) EXCEPT !.initial = "done"]
    /\ UNCHANGED <<userVars, entityVars, last, pending, calls>>

\* The onAuthStateChange listener, up to its await.
OnAuthStateChange(session) ==
    /\ Cardinality(auth.fetches) < MaxFetches
    /\ auth' = OnSession("change", session)
    /\ UNCHANGED <<userVars, entityVars, last, pending, calls>>

\* refreshProfile, up to its await.
RefreshProfile ==
    /\ auth.user # NULL
    /\ Cardinality(auth.fetches) < MaxFetches
    /\ auth' = [auth EXCEPT !.fetches = @ \cup {Fetch("refresh", auth.user)}]
    /\ UNCHANGED <<userVars, entityVars, last, pending, calls>>

\* An awaited fetchUserProfile returns: setUserProfile(profile), and
\* setLoading(false) in getInitialSession and in the listener.
FetchDone(f, outcome) ==
    /\ f \in auth.fetches
    /\ auth' = [auth EXCEPT !.fetches = @ \ {f},
                            !.userProfile = FetchUserProfile(f.userId, outcome),
                            !.loading = IF f.cb = "refresh" THEN @ ELSE FALSE]
    /\ UNCHANGED <<userVars, entityVars, last, pending, calls>>

\* signOut: supabase.auth.signOut(), during which the listener runs with
\* no session, then setUserProfile(null).
SignOut ==
    /\ auth.user # NULL
    /\ auth' = [auth EXCEPT !.user = NULL, !.userProfile = NoAuthProfile,
                            !.loading = FALSE]
    /\ UNCHANGED <<userVars, entityVars, last, pending, calls>>

\* The store with an identity that has no profile row: user 3.
InitAuth ==
    /\ tenants = [t \in Tenants |-> [exists |-> TRUE, max_users |-> DefaultMaxUsers]]
    /\ auth_users = Users
    /\ user_profiles = [u \in Users |-> IF u = 3 THEN NoProfile ELSE InitProfile(u)]
    /\ customers = [i \in RowIds |-> NoCustomer]
    /\ products = [i \in RowIds |-> NoProduct]
    /\ categories = [i \in RowIds |-> NoCategory]
    /\ seq = [customers |-> 0, products |-> 0, categories |-> 0]
    /\ last = Fail("init", NULL, NULL, "none")
    /\ pending = [p \in Sessions |-> NoSubmission]
    /\ calls = [p \in Sessions |-> NoCall]
    /\ auth = NoAuth

NextAuth ==
    \/ \E session \in {NULL} \cup auth_users : GetInitialSession(session)
    \/ \E session \in {NULL} \cup auth_users : OnAuthStateChange(session)
    \/ RefreshProfile
    \/ \E f \in auth.fetches, outcome \in FetchOutcomes : FetchDone(f, outcome)
    \/ SignOut

SpecAuth == InitAuth /\ [][NextAuth]_vars

\* The AuthProvider with its awaits returning: getSession() answers, and
\* every awaited fetchUserProfile returns, with one outcome or another.
SpecAuthFair ==
    /\ SpecAuth
    /\ WF_vars(\E session \in {NULL} \cup auth_users : GetInitialSession(session))
    /\ WF_vars(\E f \in auth.fetches, outcome \in FetchOutcomes : FetchDone(f, outcome))

\* What ProtectedRoute shows for the state of useAuth(): the spinner while
\* loading or while a user has no profile; otherwise the effect redirects
\* (no user, or a role that is not allowed) or the children render.
RouteView(allowedRoles) ==
    IF auth.loading \/ (auth.user # NULL /\ auth.userProfile = NoAuthProfile)
    THEN "spinner"
    ELSE IF auth.user = NULL THEN "redirect"
    ELSE IF allowedRoles # {} /\ auth.userProfile.role \notin allowedRoles
    THEN "redirect"
    ELSE "children"


(* ------------- the tenant-admin user pages and the cache -------------- *)

\* getUsersByTenant(tenantId): select('*').eq('tenant_id', tenantId), as
\* far as the caller sees the rows.
GetUsersByTenant(caller, tenantId) ==
    /\ last' = Result("getUsersByTenant", caller, tenantId, "none",
                      <<{u \in Users : /\ user_profiles[u].exists
                                       /\ user_profiles[u].tenant_id = tenantId
                                       /\ ProfileVisible(caller, u, user_profiles[u])}>>)
    /\ UNCHANGED <<userVars, entityVars>>

\* TenantUsersPage.loadUsers: the tenant is userProfile.tenant_id of
\* useAuth(), and nothing is asked without one.
LoadUsers ==
    /\ auth.user # NULL
    /\ auth.userProfile.tenant_id # NULL
    /\ GetUsersByTenant(auth.user, auth.userProfile.tenant_id)
    /\ UNCHANGED clientVars

\* CreateUserPage.handleSubmit of the tenant admin: createUser with
\* tenant_id: userProfile.tenant_id of useAuth(), refused without one.
TenantCreateUserSubmit(role, accepted) ==
    /\ auth.user # NULL
    /\ auth.userProfile.tenant_id # NULL
    /\ CreateUser(auth.user, role, auth.userProfile.tenant_id, "", accepted)
    /\ UNCHANGED clientVars

\* The tenant and role changes a super_admin makes to a user.
CacheUpdates == {u \in UserUpdates : u.has \in {{"tenant_id"}, {"role"}}}

\* The store with identity 3 not created yet.
InitCache ==
    /\ tenants = [t \in Tenants |-> [exists |-> TRUE, max_users |-> DefaultMaxUsers]]
    /\ auth_users = {1, 2}
    /\ user_profiles = [u \in Users |-> IF u = 3 THEN NoProfile ELSE InitProfile(u)]
    /\ customers = [i \in RowIds |-> NoCustomer]
    /\ products = [i \in RowIds |-> NoProduct]
    /\ categories = [i \in RowIds |-> NoCategory]
    /\ seq = [customers |-> 0, products |-> 0, categories |-> 0]
    /\ last = Fail("init", NULL, NULL, "none")
    /\ pending = [p \in Sessions |-> NoSubmission]
    /\ calls = [p \in Sessions |-> NoCall]
    /\ auth = NoAuth

\* The browser of user 2, a tenant admin, while a super_admin changes the
\* row of user 2.
NextCache ==
    \/ OnAuthStateChange(2)
    \/ \E f \in auth.fetches : FetchDone(f, "answered")
    \/ \E u \in CacheUpdates : UpdateUser(1, 2, u) /\ UNCHANGED clientVars
    \/ LoadUsers
    \/ \E accepted \in BOOLEAN : TenantCreateUserSubmit("tenant_user", accepted)

SpecCache == InitCache /\ [][NextCache]_vars

\* The two edit pages against the store of InitEntities.
NextPages ==
    \E caller \in Users, id \in Users, w \in EditWrites :
        \/ TenantEditSubmit(caller, id, w)
        \/ SuperEditSubmit(caller, id, w)

SpecPages == InitEntities /\ [][NextPages]_vars

\* The product updates that move a product into or out of a category.
CategoryMoves == {u \in ProductUpdates : u.has = {"category_id"}}

\* deleteCategory in two sessions, statement by statement, among the
\* creates and updates of the users of the tenants.
NextRace ==
    \/ \E caller \in Users :
          \/ CreateCategory(caller, <<"a">>) /\ UNCHANGED clientVars
          \/ \E c \in {NULL} \cup RowIds :
                CreateProduct(caller, <<"a">>, DefaultPrice, NULL, 0, c) /\ UNCHANGED clientVars
          \/ \E id \in RowIds, u \in CategoryMoves :
                UpdateProduct(caller, id, u) /\ UNCHANGED clientVars
          \/ \E p \in Sessions, id \in RowIds, outcome \in CountOutcomes :
                DeleteCategoryCount(p, caller, id, outcome)
    \/ \E p \in Sessions : DeleteCategoryDelete(p)

SpecRace == InitEntities /\ [][NextRace]_vars


(* ------------------- claims on the entity services -------------------- *)

ListOps == {"getAllCustomers", "getAllProducts", "getAllCategories"}

LookupOps == {"getCustomerById", "getProductById", "getCategoryById"}

ProductReads == {"getAllProducts", "getProductById"}

UpdateOps == {"updateCustomer", "updateProduct", "updateCategory"}

DeleteOps == {"deleteCustomer", "deleteProduct", "deleteCategory"}

\* The table an operation works on.
TableOf(op) ==
    IF op \in {"getAllCustomers", "getCustomerById", "createCustomer",
               "updateCustomer", "deleteCustomer"} THEN customers
    ELSE IF op \in {"getAllProducts", "getProductById", "createProduct",
                    "updateProduct", "deleteProduct"} THEN products
    ELSE categories

RoleOf(caller) == IF caller \in Users THEN user_profiles[caller].role ELSE "none"

\* C1: a listing or lookup never hands a caller resolved to tenant Y a row
\* owned by another tenant: neither a row of the table read nor the
\* category row embedded in a product.
C1_ReadIsolation ==
    (last.op \in ListOps \cup LookupOps /\ last.err = "none") =>
        \A k \in 1..Len(last.data) :
            /\ last.data[k].row.tenant_id = last.tenant
            /\ (last.op \in ProductReads /\ last.data[k].category.id # NULL) =>
                  categories[last.data[k].category.id].tenant_id = last.tenant

\* C2: an update or delete by a caller resolved to tenant Y leaves every
\* row owned by another tenant unchanged and present.
C2_Frame ==
    last'.op \in UpdateOps \cup DeleteOps =>
        \A i \in RowIds :
            /\ (customers[i].exists /\ customers[i].tenant_id # last'.tenant) =>
                  customers'[i] = customers[i]
            /\ (products[i].exists /\ products[i].tenant_id # last'.tenant) =>
                  products'[i] = products[i]
            /\ (categories[i].exists /\ categories[i].tenant_id # last'.tenant) =>
                  categories'[i] = categories[i]

C2_CrossTenantWritesNoEffect == [][C2_Frame]_vars

\* C2 witness: a caller with a tenant has named, in an update or delete,
\* the id of a row another tenant owns.
C2_Witness ==
    /\ last.op \in UpdateOps \cup DeleteOps
    /\ last.tenant # NULL
    /\ TableOf(last.op)[last.target].exists
    /\ TableOf(last.op)[last.target].tenant_id # last.tenant
    /\ last.err \in {"none", "NotFound"}
    /\ last.op \in DeleteOps \cup {"updateCustomer"}

C7_Step ==
    /\ (last'.op \in LookupOps /\ last'.caller \in auth_users) =>
          ((last'.err = "none") <=>
              /\ TableOf(last'.op)[last'.target].exists
              /\ TableOf(last'.op)[last'.target].tenant_id = last'.tenant)
    /\ (last'.op \in ListOps \cup LookupOps /\ last'.err = "none") =>
          \A k \in 1..Len(last'.data) : last'.data[k].row.tenant_id = last'.tenant
    /\ (last'.op \in ListOps \cup LookupOps \cup UpdateOps \cup DeleteOps
          /\ last'.caller \in auth_users /\ last'.tenant = NULL) =>
          last'.err = "NoTenantAssigned"
    /\ (last'.op \in UpdateOps \cup DeleteOps) =>
          \A i \in RowIds :
             /\ customers'[i] # customers[i] => customers[i].tenant_id = last'.tenant
             /\ products'[i] # products[i] => products[i].tenant_id = last'.tenant
             /\ categories'[i] # categories[i] => categories[i].tenant_id = last'.tenant
    /\ (last'.op \in {"deleteCustomer", "deleteProduct"} /\ last'.caller \in auth_users
          /\ TableOf(last'.op)[last'.target].exists
          /\ TableOf(last'.op)[last'.target].tenant_id = last'.tenant) =>
          /\ last'.op = "deleteCustomer" => ~customers'[last'.target].exists
          /\ last'.op = "deleteProduct" => ~products'[last'.target].exists

UserWriteOps == {"updateUser", "createUser", "deleteUser"}

IsTenantAdmin(caller) ==
    caller \in Users /\ user_profiles[caller].exists
        /\ user_profiles[caller].role = "tenant_admin"

\* C3: an updateUser call never changes the role or the status of the
\* caller's own row.
C3_Step ==
    (last'.op = "updateUser" /\ last'.caller \in Users) =>
        (user_profiles[last'.caller].exists =>
            /\ user_profiles'[last'.caller].role = user_profiles[last'.caller].role
            /\ user_profiles'[last'.caller].status = user_profiles[last'.caller].status)

C3_NoSelfModification == [][C3_Step]_vars

\* C4: no write of a tenant_admin makes another row a super_admin row,
\* and no write of a tenant_admin changes or removes a super_admin row.
C4_Step ==
    (last'.op \in UserWriteOps /\ IsTenantAdmin(last'.caller)) =>
        \A u \in Users :
            /\ (u # last'.caller /\ user_profiles'[u].exists
                  /\ user_profiles'[u].role = "super_admin") =>
                  (user_profiles[u].exists /\ user_profiles[u].role = "super_admin")
            /\ (user_profiles[u].exists /\ user_profiles[u].role = "super_admin") =>
                  user_profiles'[u] = user_profiles[u]

C4_SuperAdminUntouchable == [][C4_Step]_vars

\* C5: no create, update or delete of a tenant_admin changes, removes or
\* adds a row whose role is tenant_admin or super_admin.
C5_Step ==
    (last'.op \in UserWriteOps /\ IsTenantAdmin(last'.caller)) =>
        \A u \in Users :
            /\ (user_profiles[u].exists
                  /\ user_profiles[u].role \in {"tenant_admin", "super_admin"}) =>
                  user_profiles'[u] = user_profiles[u]
            /\ (~user_profiles[u].exists /\ user_profiles'[u].exists) =>
                  user_profiles'[u].role = "tenant_user"

C5_TenantAdminManagesTenantUsersOnly == [][C5_Step]_vars

\* C6: when an updateUser call changes a row's role or tenant reference,
\* its caller is a super_admin.
C6_Step ==
    (last'.op = "updateUser"
       /\ \E u \in Users :
             \/ user_profiles'[u].role # user_profiles[u].role
             \/ user_profiles'[u].tenant_id # user_profiles[u].tenant_id) =>
        IsSuperAdmin(last'.caller)

C6_OnlySuperAdminReassigns == [][C6_Step]_vars


(* -------------------- claims on the capacity checks ------------------- *)

\* The members of a tenant: the rows of user_profiles that refer to it.
Members(t) == {u \in Users : user_profiles[u].exists /\ user_profiles[u].tenant_id = t}

TenantExists(t) == t \in Tenants /\ tenants[t].exists

\* What canAddUser owes for tenant t: the member count whatever the
\* status, the tenant's max_users, and their comparison.
CapacityAnswer(r, t) ==
    /\ r.error = "none"
    /\ r.currentCount = Cardinality(Members(t))
    /\ r.maxUsers = tenants[t].max_users
    /\ r.canAdd = (r.currentCount < r.maxUsers)

C9_TenantNotFound ==
    (last.op = "canAddUser"
       /\ ~(TenantExists(last.target) /\ TenantVisible(last.caller, last.target))) =>
        (~last.data[1].canAdd /\ last.data[1].error # "none")

\* C9 witness: a super_admin named an identifier no tenant row has.
C9_Witness ==
    /\ last.op = "canAddUser"
    /\ IsSuperAdmin(last.caller)
    /\ ~TenantExists(last.target)
    /\ last.data[1].error = "NotFound"

UserExists(u) == u \in Users /\ user_profiles[u].exists

\* C10 as stated: canAssignToTenant succeeds whenever the user exists and
\* is in the tenant named already.
C10_SameTenantAlwaysAssignable ==
    (last.op = "canAssignToTenant" /\ UserExists(last.target)
       /\ user_profiles[last.target].tenant_id = last.data[1].tenantId) =>
        (last.data[1].result.canAssign /\ last.data[1].result.error = "none")

\* C10 as amended: canAssignToTenant succeeds whenever the caller can read
\* the user's row and the user is in the tenant named already, whatever
\* the tenant's capacity.
C10_SameTenantAssignableWhenReadable ==
    (last.op = "canAssignToTenant" /\ UserExists(last.target)
       /\ ProfileVisible(last.caller, last.target, user_profiles[last.target])
       /\ user_profiles[last.target].tenant_id = last.data[1].tenantId) =>
        (last.data[1].result.canAssign /\ last.data[1].result.error = "none")

\* C10 witness: the check passed for a user of a tenant that holds more
\* members than its max_users.
C10_Witness ==
    /\ last.op = "canAssignToTenant"
    /\ UserExists(last.target)
    /\ user_profiles[last.target].tenant_id = last.data[1].tenantId
    /\ TenantExists(last.data[1].tenantId)
    /\ Cardinality(Members(last.data[1].tenantId)) > tenants[last.data[1].tenantId].max_users
    /\ last.data[1].result.canAssign


\* C11 as stated: for a user of another tenant canAssignToTenant returns
\* canAssign = true exactly when canAddUser returns canAdd = true, and
\* with canAdd = false it fails with the at-capacity reason carrying the
\* currentCount and maxUsers of canAddUser.
C11_DefersToCanAddUser ==
    (last.op = "canAssignToTenant" /\ UserExists(last.target)
       /\ user_profiles[last.target].tenant_id # last.data[1].tenantId) =>
        LET capacity == CanAddUserResult(last.caller, last.data[1].tenantId)
            result   == last.data[1].result
        IN  /\ result.canAssign <=> capacity.canAdd
            /\ ~capacity.canAdd =>
                  result.reason = AtCapacityReason(capacity.currentCount, capacity.maxUsers)

\* C11 as amended: for a user of another tenant whose row the caller can
\* read, canAssignToTenant returns canAssign = true exactly when
\* canAddUser returns canAdd = true; when canAddUser returns an error it
\* fails with that error and the reason "Error checking tenant capacity",
\* and when canAddUser returns canAdd = false without error it fails,
\* without error, with the at-capacity reason carrying the currentCount
\* and maxUsers of canAddUser.
C11_DefersToCanAddUserWhenReadable ==
    (last.op = "canAssignToTenant" /\ UserExists(last.target)
       /\ ProfileVisible(last.caller, last.target, user_profiles[last.target])
       /\ user_profiles[last.target].tenant_id # last.data[1].tenantId) =>
        LET capacity == CanAddUserResult(last.caller, last.data[1].tenantId)
            result   == last.data[1].result
        IN  /\ result.canAssign <=> capacity.canAdd
            /\ capacity.error # "none" =>
                  /\ result.error = capacity.error
                  /\ result.reason = <<"Error checking tenant capacity">>
            /\ (capacity.error = "none" /\ ~capacity.canAdd) =>
                  /\ result.error = "none"
                  /\ result.reason =
                        AtCapacityReason(capacity.currentCount, capacity.maxUsers)

\* C11 witness: a super_admin asked to move a user into a full tenant and
\* was told its count and maximum.
C11_Witness ==
    /\ last.op = "canAssignToTenant"
    /\ IsSuperAdmin(last.caller)
    /\ UserExists(last.target)
    /\ user_profiles[last.target].tenant_id # last.data[1].tenantId
    /\ TenantExists(last.data[1].tenantId)
    /\ ~last.data[1].result.canAssign
    /\ last.data[1].result.reason =
          AtCapacityReason(Cardinality(Members(last.data[1].tenantId)),
                           tenants[last.data[1].tenantId].max_users)


(* --------------------- claims on the user forms ----------------------- *)

\* C12: the capacity check and the membership write are separate round
\* trips with nothing held between them: the write of a submission whose
\* check passed goes through whatever the tenant's member count has become
\* since, so two submissions that both saw canAdd = true both land
\* (C12_Witness is the interleaving that overfills the tenant).
C12_Step ==
    \A p \in Sessions :
        (/\ pending[p].pc = "write" /\ pending'[p].pc = "done"
         /\ pending[p].checked
         /\ IsSuperAdmin(pending[p].caller)
         /\ user_profiles[pending[p].userId].exists) =>
            /\ pending'[p].error = "none"
            /\ user_profiles'[pending[p].userId].tenant_id = pending[p].formData.tenant_id

C12_WriteIgnoresCapacity == [][C12_Step]_vars

\* C12 witness: two submissions for one tenant both saw canAdd = true with
\* currentCount = maxUsers - 1, both writes succeeded, and the tenant has
\* more members than max_users.
C12_Witness ==
    \E p \in Sessions, q \in Sessions :
        /\ p # q
        /\ pending[p].pc = "done" /\ pending[q].pc = "done"
        /\ pending[p].error = "none" /\ pending[q].error = "none"
        /\ pending[p].checked /\ pending[q].checked
        /\ pending[p].formData.tenant_id = pending[q].formData.tenant_id
        /\ pending[p].userId # pending[q].userId
        /\ pending[p].seen[1] /\ pending[q].seen[1]
        /\ pending[p].seen[2] = pending[p].seen[3] - 1
        /\ pending[q].seen = pending[p].seen
        /\ Cardinality(Members(pending[p].formData.tenant_id)) >
              tenants[pending[p].formData.tenant_id].max_users


\* C13: createUser writes the profile of a user assigned to tenant X only
\* after canAddUser(X) answered canAdd = true: whenever a createUser call
\* stores a row with a tenant, canAddUser of that tenant, asked by the
\* caller just before the write, answers canAdd = true.
C13_Step ==
    \A id \in Users :
        (/\ last'.op = "createUser" /\ last'.err = "none"
         /\ id \in auth_users' \ auth_users
         /\ user_profiles'[id].tenant_id # NULL) =>
            CanAddUserResult(last'.caller, user_profiles'[id].tenant_id).canAdd

C13_CreateUserChecksCapacity == [][C13_Step]_vars


(* ---------------- claims on categories and products ------------------- *)

\* C14: deleteCategory(id) by a caller of tenant X on a category of X,
\* with N the number of products of X that reference id: when N > 0 the
\* call fails with CategoryNotEmpty carrying N and the category row is
\* unchanged; when N = 0 the call succeeds and the row no longer exists.
C14_Step ==
    \A id \in RowIds :
        (/\ last'.op = "deleteCategory" /\ last'.target = id
         /\ Precondition(last'.caller) = "ok"
         /\ categories[id].exists
         /\ categories[id].tenant_id = OwnTenant(last'.caller)) =>
            LET N == ProductCount(id, OwnTenant(last'.caller))
            IN  IF N > 0
                THEN /\ last'.err = "CategoryNotEmpty"
                     /\ last'.data = <<N>>
                     /\ categories'[id] = categories[id]
                ELSE /\ last'.err = "none"
                     /\ ~categories'[id].exists

C14_DeleteCategoryGuard == [][C14_Step]_vars


\* C15: after every createProduct or updateProduct every product row has
\* cost <= price; a write whose row would have cost > price is refused by
\* the store's check and changes no row, and a row with cost <= price,
\* cost = price included, passes the check.
C15_Step ==
    /\ \A i \in RowIds :
          products'[i].exists => products'[i].cost <= products'[i].price
    /\ (last'.op \in {"createProduct", "updateProduct"}
          /\ last'.err = "CheckViolation") => products' = products
    /\ \A i \in RowIds, u \in PriceUpdates :
          products[i].exists =>
              LET row == ApplyProductUpdates(products[i], u)
              IN  ProductWriteError(row) =
                     IF row.cost > row.price THEN "CheckViolation" ELSE "none"

C15_CostNeverExceedsPrice == [][C15_Step]_vars

\* C15 witness: a product stored with cost = price, and an update that
\* would have put a cost above a price refused.
C15_Witness ==
    /\ last.op = "updateProduct"
    /\ last.err = "CheckViolation"
    /\ products[last.target].exists
    /\ products[last.target].cost = products[last.target].price

\* C16: every product row has stock_quantity >= 0.
C16_StockNeverNegative ==
    \A i \in RowIds : products[i].exists => products[i].stock_quantity >= 0


(* ------------------- claims on users and tenants ---------------------- *)

\* C17: every user row whose role is tenant_admin or tenant_user has a
\* tenant.
C17_TenantRolesHaveTenant ==
    \A u \in Users :
        (user_profiles[u].exists
           /\ user_profiles[u].role \in {"tenant_admin", "tenant_user"}) =>
            user_profiles[u].tenant_id # NULL

\* C18: every tenant row has max_users >= 1.
C18_MaxUsersPositive ==
    \A t \in Tenants : tenants[t].exists => tenants[t].max_users >= 1


(* ----------------------- claims on the creates ------------------------ *)

CreateOps == {"createCustomer", "createProduct", "createCategory"}

\* The ids a caller's unfiltered listing of the table of op returns.
ListedIds(op, c) ==
    IF op = "createCustomer" THEN CustomerMatches(c, NoSearch)
    ELSE IF op = "createProduct" THEN ProductMatches(c, NoSearch, NULL, FALSE)
    ELSE CategoryMatches(c, NoSearch)

\* C19: a successful createCustomer, createProduct or createCategory has
\* stored the row it returns, with the tenant resolved from the caller's
\* profile at call time and with a customer's email and a product's
\* category either given or null; the row is in the unfiltered listing of
\* every caller resolved to that tenant and of no caller resolved to
\* another tenant.
C19_CreatesStamped ==
    (last.op \in CreateOps /\ last.err = "none") =>
        LET id  == last.target
            row == TableOf(last.op)[id]
        IN  /\ row.exists
            /\ row = last.data[1].row
            /\ last.tenant # NULL
            /\ row.tenant_id = last.tenant
            /\ last.op = "createCustomer" => row.email \in Emails
            /\ last.op = "createProduct" => row.category_id \in {NULL} \cup RowIds
            /\ \A c \in Users :
                  Precondition(c) = "ok" =>
                      (id \in ListedIds(last.op, c) <=> OwnTenant(c) = last.tenant)

\* C19 witness: a create succeeded while a user of another tenant exists
\* who can list.
C19_Witness ==
    /\ last.op \in CreateOps
    /\ last.err = "none"
    /\ \E c \in Users : Precondition(c) = "ok" /\ OwnTenant(c) # last.tenant


\* C20: a customer row keeps the tenant_id it was created with for as
\* long as it exists, whatever updates object updateCustomer is given, one
\* carrying a tenant_id included.
C20_Step ==
    \A i \in RowIds :
        (customers[i].exists /\ customers'[i].exists) =>
            customers'[i].tenant_id = customers[i].tenant_id

C20_CustomerTenantImmutable == [][C20_Step]_vars

\* C20 witness: updateCustomer was given a tenant_id other than the row's
\* and the store refused it.
C20_Witness ==
    /\ last.op = "updateCustomer"
    /\ last.err = "PolicyViolation"
    /\ customers[last.target].exists
    /\ customers[last.target].tenant_id = last.tenant


(* ---------------------- claims on the preamble ------------------------ *)

EntityOps == ListOps \cup LookupOps \cup CreateOps \cup UpdateOps \cup DeleteOps

\* C21: an entity operation called with no session returns
\* NotAuthenticated, and one called by a signed-in caller whose profile has
\* no tenant or does not exist returns NoTenantAssigned; either way the
\* error is the returned value, no row is returned and customers, products
\* and categories are as before.
C21_Step ==
    last'.op \in EntityOps =>
        LET caller == last'.caller
        IN  /\ GetUser(caller) = NULL =>
                  /\ last'.err = "NotAuthenticated"
                  /\ last'.data = <<>>
                  /\ UNCHANGED entityVars
            /\ (GetUser(caller) # NULL /\ OwnTenant(caller) = NULL) =>
                  /\ last'.err = "NoTenantAssigned"
                  /\ last'.data = <<>>
                  /\ UNCHANGED entityVars

C21_PreconditionsFailClosed == [][C21_Step]_vars

\* C21 witness: a signed-in caller without a tenant asked for a table that
\* has rows and was refused.
C21_Witness ==
    /\ last.op \in ListOps \cup DeleteOps
    /\ last.err = "NoTenantAssigned"
    /\ GetUser(last.caller) # NULL
    /\ \E i \in RowIds : TableOf(last.op)[i].exists


(* --------------------- claims on the AuthProvider --------------------- *)

\* C22: when an awaited fetchUserProfile returns for an identity that has
\* no profile row, the store's answer (no row) gives the made-up profile
\* with role tenant_user and no tenant, and whatever the outcome the
\* profile set has neither role tenant_admin nor super_admin and has no
\* tenant.
C22_Step ==
    \A f \in auth.fetches :
        (f \notin auth'.fetches /\ ~user_profiles[f.userId].exists) =>
            /\ FetchUserProfile(f.userId, "answered") =
                  [id |-> f.userId, role |-> "tenant_user", tenant_id |-> NULL]
            /\ auth'.userProfile.role \notin {"tenant_admin", "super_admin"}
            /\ auth'.userProfile.tenant_id = NULL

C22_MissingProfileLeastPrivilege == [][C22_Step]_vars

\* C22 witness: the identity without a profile row is signed in, its fetch
\* has returned, and the AuthProvider holds the made-up profile.
C22_Witness ==
    /\ auth.user = 3
    /\ ~user_profiles[3].exists
    /\ auth.fetches = {}
    /\ ~auth.loading
    /\ auth.userProfile = [id |-> 3, role |-> "tenant_user", tenant_id |-> NULL]


\* C23: every operation a user starts is scoped by the role and tenant its
\* profile row has at that moment: the tenant the tenant-admin pages pass
\* to getUsersByTenant and to createUser is the tenant of the caller's row
\* in the store, and the role they go by is the role of that row.
C23_Step ==
    (last'.op \in {"getUsersByTenant", "createUser"} /\ UNCHANGED auth
       /\ last' # last) =>
        /\ auth.userProfile.tenant_id = OwnTenant(auth.user)
        /\ auth.userProfile.role = user_profiles[auth.user].role
        /\ last'.op = "getUsersByTenant" => last'.target = OwnTenant(auth.user)

C23_FreshAuthorization == [][C23_Step]_vars


(* ------------------- claims on tenant deletion ------------------------ *)

\* The rows of each table that reference tenant t.
ReferencingUsers(t) ==
    {u \in Users : user_profiles[u].exists /\ user_profiles[u].tenant_id = t}

ReferencingCustomers(t) ==
    {i \in RowIds : customers[i].exists /\ customers[i].tenant_id = t}

ReferencingProducts(t) ==
    {i \in RowIds : products[i].exists /\ products[i].tenant_id = t}

ReferencingCategories(t) ==
    {i \in RowIds : categories[i].exists /\ categories[i].tenant_id = t}

\* C24: after a deleteTenant(X) that returns no error, no row of
\* customers, products, categories or user_profiles references X, the
\* rows that referenced X having been deleted.
C24_Step ==
    (last'.op = "deleteTenant" /\ last'.err = "none" /\ last'.target \in Tenants
       /\ tenants[last'.target].exists) =>
        LET X == last'.target
        IN  /\ \A u \in ReferencingUsers(X) : ~user_profiles'[u].exists
            /\ \A i \in ReferencingCustomers(X) : ~customers'[i].exists
            /\ \A i \in ReferencingProducts(X) : ~products'[i].exists
            /\ \A i \in ReferencingCategories(X) : ~categories'[i].exists
            /\ \A u \in Users : user_profiles'[u].exists => user_profiles'[u].tenant_id # X

C24_CascadeDeletesAll == [][C24_Step]_vars

(* ------------------- claims on the two access checks ------------------ *)

\* The store lets caller write w to row id: the row is there, a policy
\* lets the caller update it and a policy accepts the row it becomes.
C25_StorePermits(caller, id, w) ==
    /\ user_profiles[id].exists
    /\ UpdateUsing(caller, id, user_profiles[id])
    /\ UpdateCheck(caller, id, ApplyUserUpdates(user_profiles[id], TenantFormUpdates(id, w)))

\* C25: for every caller, every target row and every write of role,
\* status or name, the edit pages let the write through if and only if
\* the policies of user_profiles permit it.
C25_PoliciesAgree ==
    \A caller \in Users, id \in Users, w \in EditWrites :
        user_profiles[caller].exists =>
            ((TenantEditPermits(caller, id, w) \/ SuperEditPermits(caller, id, w))
                <=> C25_StorePermits(caller, id, w))

(* ---------------- claims on the deletion of categories ---------------- *)

\* C26: under every interleaving of the statements of deleteCategory(c)
\* with createProduct and updateProduct calls that set category_id = c,
\* no product references a category that has been deleted.
C26_NoDanglingCategory ==
    \A i \in RowIds :
        (products[i].exists /\ products[i].category_id # NULL) =>
            categories[products[i].category_id].exists

\* A deleteCategory(c) that counted no product, whose DELETE was refused
\* because a product of the same tenant had come to reference c meanwhile.
C26_Witness ==
    \E p \in Sessions, i \in RowIds :
        /\ calls[p].pc = "done"
        /\ calls[p].count = <<0>>
        /\ calls[p].error = "ForeignKeyViolation"
        /\ products[i].exists
        /\ products[i].category_id = calls[p].id
        /\ products[i].tenant_id = calls[p].tenant
        /\ categories[calls[p].id].exists

\* C27: the DELETE of deleteCategory is issued only after a count that
\* was read and is 0; when the count query fails or yields no count, the
\* call returns an error and the category row stays.
C27_Step ==
    \A p \in Sessions :
        /\ (calls[p].pc = "delete" /\ calls'[p].pc = "done") =>
              calls[p].count = <<0>>
        /\ (calls'[p] # calls[p] /\ calls'[p].pc # "idle" /\ calls'[p].count = <<>>) =>
              /\ calls'[p].pc = "done"
              /\ calls'[p].error # "none"
              /\ categories' = categories

C27_DeleteOnlyOnConfirmedEmpty == [][C27_Step]_vars

(* ----------------------- claims on createUser ------------------------- *)

\* C28: whenever createUser returns an error, no identity was added to
\* the identity provider and no profile row was created; whenever it
\* returns data, the profile row of the new identity has exactly the
\* requested role, tenant and status.
C28_Step ==
    \A caller \in Callers, r \in Roles, t \in {NULL} \cup Tenants,
       st \in {"", "suspended"}, accepted \in BOOLEAN :
        CreateUser(caller, r, t, st, accepted) =>
            IF last'.err # "none"
            THEN auth_users' = auth_users /\ user_profiles' = user_profiles
            ELSE \E id \in auth_users' \ auth_users :
                    user_profiles'[id] =
                        [exists |-> TRUE, role |-> r, tenant_id |-> t,
                         status |-> IF st # "" THEN st ELSE "active"]

C28_CreateUserAllOrNothing == [][C28_Step]_vars

(* --------------------- claims on the AuthProvider --------------------- *)

\* C29: for an authenticated user, once the initial session load of the
\* AuthProvider is over, ProtectedRoute eventually leaves the spinner and
\* renders its children or redirects, whatever fetchUserProfile answers.
C29_LeavesSpinner ==
    (auth.initial = "done" /\ auth.user # NULL)
        ~> (RouteView({"tenant_admin"}) # "spinner")

\* C30: under every interleaving of the auth-state-change callbacks,
\* signOut and the completions of fetchUserProfile, once no profile fetch
\* is in flight, user = null implies userProfile = null, and a non-null
\* userProfile has the id of the current user.
C30_NoStaleProfile ==
    auth.fetches = {} =>
        /\ (auth.user = NULL => auth.userProfile = NoAuthProfile)
        /\ (auth.userProfile # NoAuthProfile => auth.userProfile.id = auth.user)

====
